---------------------------- MODULE Spec2Model ----------------------------
(***************************************************************************)
(* Accuracy evaluation engine of htr (src/cmd/eval.go, second listing of   *)
(* the file, lines 632-1983): applyIgnorePatterns, normalizeSpaces,        *)
(* levenshteinDistance, calculateSimilarity, calculateWordSimilarity,      *)
(* wordLevelLevenshteinDistance, calculateWordLevelMetrics and             *)
(* CalculateAccuracyMetrics.                                               *)
(*                                                                         *)
(* A Go string is modelled as the sequence of its code points (each a      *)
(* short TLA+ string, "U+00E9" for a two-byte one); its byte view, which   *)
(* len(s) and s[i] of the Go code use, is Bytes(s).  A float64 ratio is    *)
(* modelled as an exact fraction [num, den] with den > 0.                  *)
(***************************************************************************)
EXTENDS Integers, Sequences, FiniteSets, TLC

VARIABLES
    pc,              \* position in the call chain
    original,        \* CalculateAccuracyMetrics parameters
    transcribed,
    singleLine,
    ignorePatterns,  \* shared by CalculateAccuracyMetrics and applyIgnorePatterns
    groundTruth,     \* applyIgnorePatterns parameters
    transcription,
    gtIdx,           \* applyIgnorePatterns locals
    transIdx,
    processedGT,
    processedTrans,
    ignoredCount,
    lastStep,        \* which branch the last loop iteration took
    s1,              \* calculateSimilarity / levenshteinDistance parameters
    s2,
    charOut,         \* what the character functions returned
    orig,            \* calculateWordLevelMetrics parameters
    trans,
    bi,              \* calculateWordLevelMetrics locals i, j and counters
    bj,
    substitutions,
    deletions,
    insertions,
    correct,
    wordOut,         \* what calculateWordLevelMetrics returned
    result,          \* the EvalResult CalculateAccuracyMetrics returned
    caller,          \* who called CalculateAccuracyMetrics ("none": called directly)
    csvOpens,        \* processEvaluation: whether os.Open(config.CSVPath) succeeds
    records,         \* the records of the CSV file
    TestRows,        \* config.TestRows
    dataRows,        \* processEvaluation locals
    rowIdx,
    results,
    err,             \* the error processEvaluation returned
    files,           \* runCSV: the evaluation files found, each the list of its results
    fileIdx,
    modelSummaries,  \* the summaries collected, one per evaluation file
    transcriptReadable, \* runBackfill: whether readTextFile(TranscriptPath) succeeds
    summaryResult,   \* runBackfill: summary.Results[i] of the stored file
    needsUpdate,
    evalConfigPath,  \* runEval: the --config flag ("" when not given)
    config,          \* the EvalConfig of the run, saved as summary.Config
    hasIgnoreFlag,   \* runBackfill: cmd.Flags().Changed("ignore")
    hasSingleLineFlag,      \* cmd.Flags().Changed("single-line")
    backfillOverride,       \* the --override flag
    backfillIgnorePatterns, \* the value of --ignore
    backfillSingleLine      \* the value of --single-line

vars == << pc, original, transcribed, singleLine, ignorePatterns, groundTruth,
           transcription, gtIdx, transIdx, processedGT, processedTrans,
           ignoredCount, lastStep, s1, s2, charOut, orig, trans, bi, bj,
           substitutions, deletions, insertions, correct, wordOut, result,
           caller, csvOpens, records, TestRows, dataRows, rowIdx, results, err,
           files, fileIdx, modelSummaries, transcriptReadable, summaryResult,
           needsUpdate, evalConfigPath, config, hasIgnoreFlag,
           hasSingleLineFlag, backfillOverride, backfillIgnorePatterns,
           backfillSingleLine >>

\* The state of the commands around CalculateAccuracyMetrics.
cmdVars == << caller, csvOpens, records, TestRows, dataRows, rowIdx, results,
              err, files, fileIdx, modelSummaries, transcriptReadable,
              summaryResult, needsUpdate, evalConfigPath, config,
              hasIgnoreFlag, hasSingleLineFlag, backfillOverride,
              backfillIgnorePatterns, backfillSingleLine >>

\* The command lines of eval and backfill and the saved configuration.
flagVars == << evalConfigPath, config, hasIgnoreFlag, hasSingleLineFlag,
               backfillOverride, backfillIgnorePatterns, backfillSingleLine >>

-----------------------------------------------------------------------------
(* Bounds of the model *)

MaxLen == 3
MaxGT == 4
MaxTrans == 4
MaxStr == 4
MaxWords == 3
MaxText == 3
MaxRows == 3
MaxFiles == 3
MaxResults == 2
MaxStored == 2

-----------------------------------------------------------------------------
(* Strings *)

Min(a, b) == IF a < b THEN a ELSE b

Max(a, b) == IF a > b THEN a ELSE b

\* All sequences over S of length at most n.
SeqsUpTo(S, n) == UNION { [1..k -> S] : k \in 0..n }

\* unicode.IsSpace on the code points of the model.
IsSpace(c) == c \in {" ", "\n", "\r", "\t"}

\* The UTF-8 encoding of one code point.
UTF8(c) ==
    CASE c = "a" -> <<97>>
      [] c = "b" -> <<98>>
      [] c = "A" -> <<65>>
      [] c = "B" -> <<66>>
      [] c = " " -> <<32>>
      [] c = "|" -> <<124>>
      [] c = "\n" -> <<10>>
      [] c = "\r" -> <<13>>
      [] c = "\t" -> <<9>>
      [] c = "U+00E9" -> <<195, 169>>
      [] c = "U+00FC" -> <<195, 188>>

RECURSIVE Bytes(_)
\* The bytes of a string: what len(s) counts and s[i] indexes.
Bytes(s) == IF s = <<>> THEN <<>> ELSE UTF8(Head(s)) \o Bytes(Tail(s))

\* s[from:] with a 0-based index.
Drop(s, from) == SubSeq(s, from + 1, Len(s))

\* Mutant: no check that the pattern fits in what is left of the string.
MatchesAtNoLengthCheck(s, at, p) ==
    \A k \in 1..Len(p) : IF at + k <= Len(s) THEN s[at + k] = p[k] ELSE TRUE

\* strings.HasPrefix(s[at:], p), on code points.
MatchesAt(s, at, p) ==
    /\ at + Len(p) <= Len(s)
    /\ \A k \in 1..Len(p) : s[at + k] = p[k]

RECURSIVE CountFrom(_, _, _)
\* Non-overlapping occurrences of a non-empty sub in s from index at.
CountFrom(s, sub, at) ==
    IF at + Len(sub) > Len(s) THEN 0
    ELSE IF MatchesAt(s, at, sub) THEN 1 + CountFrom(s, sub, at + Len(sub))
    ELSE CountFrom(s, sub, at + 1)

\* strings.Count: for the empty sub, the number of code points plus one.
Count(s, sub) == IF sub = <<>> THEN Len(s) + 1 ELSE CountFrom(s, sub, 0)

RECURSIVE Fields(_)
\* strings.Fields: the maximal runs of non-space code points.
Fields(s) ==
    IF s = <<>> THEN <<>>
    ELSE IF IsSpace(Head(s)) THEN Fields(Tail(s))
    ELSE LET n == IF \E k \in 1..Len(s) : IsSpace(s[k])
                  THEN (CHOOSE k \in 1..Len(s) :
                           /\ IsSpace(s[k])
                           /\ \A h \in 1..(k - 1) : ~IsSpace(s[h])) - 1
                  ELSE Len(s)
         IN  <<SubSeq(s, 1, n)>> \o Fields(Drop(s, n))

-----------------------------------------------------------------------------
(* applyIgnorePatterns *)

RECURSIVE SumIgnoredOccurrences(_, _)
\* Mutant: adds up the occurrences, not the occurrences times the length.
SumIgnoredOccurrences(gt, patterns) ==
    IF patterns = <<>> THEN 0
    ELSE (IF Head(patterns) = <<>> THEN 0 ELSE Count(gt, Head(patterns)))
         + SumIgnoredOccurrences(gt, Tail(patterns))

RECURSIVE SumIgnored(_, _)
\* The counting loop: occurrences times the byte length of each pattern.
SumIgnored(gt, patterns) ==
    IF patterns = <<>> THEN 0
    ELSE Count(gt, Head(patterns)) * Len(Bytes(Head(patterns)))
         + SumIgnored(gt, Tail(patterns))

\* Mutant: the inner loop without its break, so the last matching pattern of
\* the list wins.
LastMatch(gtRunes, idx, patterns) ==
    IF \E k \in 1..Len(patterns) : MatchesAt(gtRunes, idx, patterns[k])
    THEN CHOOSE k \in 1..Len(patterns) :
            /\ MatchesAt(gtRunes, idx, patterns[k])
            /\ \A h \in (k + 1)..Len(patterns) : ~MatchesAt(gtRunes, idx, patterns[h])
    ELSE 0

\* The inner for loop: the first pattern of the list that matches at gtIdx
\* (0 when none does); the loop breaks there.
FirstMatch(gtRunes, idx, patterns) ==
    IF \E k \in 1..Len(patterns) : MatchesAt(gtRunes, idx, patterns[k])
    THEN CHOOSE k \in 1..Len(patterns) :
            /\ MatchesAt(gtRunes, idx, patterns[k])
            /\ \A h \in 1..(k - 1) : ~MatchesAt(gtRunes, idx, patterns[h])
    ELSE 0

\* matchedPattern after the inner loop ("" when nothing matched).
MatchedPattern(gtRunes, idx, patterns) ==
    LET k == FirstMatch(gtRunes, idx, patterns)
    IN  IF k = 0 THEN <<>> ELSE patterns[k]

BeforeIsSpace(gtRunes, idx) == IF idx = 0 THEN TRUE ELSE IsSpace(gtRunes[idx])

\* Mutant: looks one code point after the start of the match, not after its end.
AfterIsSpaceOnePast(gtRunes, idx, patternLen) ==
    IF idx + 1 >= Len(gtRunes) THEN TRUE ELSE IsSpace(gtRunes[idx + 2])

AfterIsSpace(gtRunes, idx, patternLen) ==
    IF idx + patternLen >= Len(gtRunes) THEN TRUE
    ELSE IsSpace(gtRunes[idx + patternLen + 1])

RECURSIVE SkipSpaces(_, _)
\* for transIdx < len(transRunes) && unicode.IsSpace(...) { transIdx++ }
SkipSpaces(transRunes, idx) ==
    IF idx < Len(transRunes) /\ IsSpace(transRunes[idx + 1])
    THEN SkipSpaces(transRunes, idx + 1)
    ELSE idx

RECURSIVE SkipWord(_, _)
\* for transIdx < len(transRunes) && !unicode.IsSpace(...) { transIdx++ }
SkipWord(transRunes, idx) ==
    IF idx < Len(transRunes) /\ ~IsSpace(transRunes[idx + 1])
    THEN SkipWord(transRunes, idx + 1)
    ELSE idx

\* Mutant: a standalone match skips one code point, like an embedded one.
StandaloneSkipOneChar(transRunes, idx) ==
    IF idx < Len(transRunes) THEN idx + 1 ELSE idx

\* The transcription cursor after a standalone match.
StandaloneSkip(transRunes, idx) == SkipWord(transRunes, SkipSpaces(transRunes, idx))

\* Mutant: advances without the bounds check.
EmbeddedSkipUnchecked(transRunes, idx) == idx + 1

\* The transcription cursor after a match inside a word.
EmbeddedSkip(transRunes, idx) == IF idx < Len(transRunes) THEN idx + 1 ELSE idx

\* Mutant: only the code point before the match is looked at.
IsStandaloneBeforeOnly(gtRunes, idx, patternLen) == BeforeIsSpace(gtRunes, idx)

\* Whether a match at idx takes the standalone branch.
IsStandalone(gtRunes, idx, patternLen) ==
    BeforeIsSpace(gtRunes, idx) /\ AfterIsSpace(gtRunes, idx, patternLen)

alignUnchanged == << original, transcribed, singleLine, ignorePatterns,
                     groundTruth, transcription, s1, s2, charOut, orig, trans,
                     bi, bj, substitutions, deletions, insertions, correct,
                     wordOut, result >>

\* Mutant: no early return for an empty pattern list; the scan always runs.
AlignEnterNoEarlyReturn ==
    /\ pc = "applyIgnorePatterns"
    /\ processedGT' = <<>>
    /\ processedTrans' = <<>>
    /\ ignoredCount' = SumIgnored(groundTruth, ignorePatterns)
    /\ pc' = "scan"
    /\ gtIdx' = 0
    /\ transIdx' = 0
    /\ lastStep' = "none"
    /\ UNCHANGED alignUnchanged
    /\ UNCHANGED cmdVars

\* Lines 1577-1595: the early return for no patterns, else the count and the
\* initial cursors.
AlignEnter ==
    /\ pc = "applyIgnorePatterns"
    /\ \/ /\ Len(ignorePatterns) = 0
          /\ processedGT' = groundTruth
          /\ processedTrans' = transcription
          /\ ignoredCount' = 0
          /\ pc' = "aligned"
       \/ /\ Len(ignorePatterns) # 0
          /\ processedGT' = <<>>
          /\ processedTrans' = <<>>
          /\ ignoredCount' = SumIgnored(groundTruth, ignorePatterns)
          /\ pc' = "scan"
    /\ gtIdx' = 0
    /\ transIdx' = 0
    /\ lastStep' = "none"
    /\ UNCHANGED alignUnchanged
    /\ UNCHANGED cmdVars

\* One iteration of the scan that found a standalone pattern (lines 1625-1637).
ScanStandalone ==
    /\ pc = "scan"
    /\ gtIdx < Len(groundTruth)
    /\ LET matchedPattern == MatchedPattern(groundTruth, gtIdx, ignorePatterns)
           patternLen == Len(matchedPattern)
       IN  /\ matchedPattern # <<>>
           /\ IsStandalone(groundTruth, gtIdx, patternLen)
           /\ gtIdx' = gtIdx + patternLen
           /\ transIdx' = StandaloneSkip(transcription, transIdx)
    /\ lastStep' = "standalone"
    /\ UNCHANGED << pc, processedGT, processedTrans, ignoredCount >>
    /\ UNCHANGED alignUnchanged
    /\ UNCHANGED cmdVars

\* One iteration that found a pattern inside a word (lines 1638-1646).
ScanEmbedded ==
    /\ pc = "scan"
    /\ gtIdx < Len(groundTruth)
    /\ LET matchedPattern == MatchedPattern(groundTruth, gtIdx, ignorePatterns)
           patternLen == Len(matchedPattern)
       IN  /\ matchedPattern # <<>>
           /\ ~IsStandalone(groundTruth, gtIdx, patternLen)
           /\ gtIdx' = gtIdx + patternLen
           /\ transIdx' = EmbeddedSkip(transcription, transIdx)
    /\ lastStep' = "embedded"
    /\ UNCHANGED << pc, processedGT, processedTrans, ignoredCount >>
    /\ UNCHANGED alignUnchanged
    /\ UNCHANGED cmdVars

\* One iteration on a normal character (lines 1647-1658).
ScanCopy ==
    /\ pc = "scan"
    /\ gtIdx < Len(groundTruth)
    /\ MatchedPattern(groundTruth, gtIdx, ignorePatterns) = <<>>
    /\ processedGT' = Append(processedGT, groundTruth[gtIdx + 1])
    /\ IF transIdx < Len(transcription)
       THEN /\ processedTrans' = Append(processedTrans, transcription[transIdx + 1])
            /\ transIdx' = transIdx + 1
       ELSE UNCHANGED << processedTrans, transIdx >>
    /\ gtIdx' = gtIdx + 1
    /\ lastStep' = "copy"
    /\ UNCHANGED << pc, ignoredCount >>
    /\ UNCHANGED alignUnchanged
    /\ UNCHANGED cmdVars

\* Mutant: on return the transcription left over is appended to the output.
ScanExitKeepRest ==
    /\ pc = "scan"
    /\ ~(gtIdx < Len(groundTruth))
    /\ processedTrans' = processedTrans \o Drop(transcription, transIdx)
    /\ pc' = "aligned"
    /\ UNCHANGED << gtIdx, transIdx, processedGT, ignoredCount, lastStep >>
    /\ UNCHANGED alignUnchanged
    /\ UNCHANGED cmdVars

\* The loop condition fails: return (line 1661).
ScanExit ==
    /\ pc = "scan"
    /\ ~(gtIdx < Len(groundTruth))
    /\ pc' = "aligned"
    /\ UNCHANGED << gtIdx, transIdx, processedGT, processedTrans, ignoredCount,
                    lastStep >>
    /\ UNCHANGED alignUnchanged
    /\ UNCHANGED cmdVars

-----------------------------------------------------------------------------
(* Character distance *)

\* An exact fraction standing for a float64 ratio.
Frac(n, d) == [num |-> n, den |-> d]

One == Frac(1, 1)

Zero == Frac(0, 1)

FracEq(x, y) == x.num * y.den = y.num * x.den

FracLeq(x, y) == x.num * y.den <= y.num * x.den

RECURSIVE LevRowNoInsertion(_, _, _, _)
\* Mutant: the insertion predecessor matrix[i][j-1] is left out of the minimum.
LevRowNoInsertion(prev, b, t, cur) ==
    LET j == Len(cur)
    IN  IF j > Len(t) THEN cur
        ELSE LET cost == IF b # t[j] THEN 1 ELSE 0
                 cell == Min(prev[j + 1] + 1, prev[j] + cost)
             IN  LevRowNoInsertion(prev, b, t, Append(cur, cell))

RECURSIVE LevRowCostAlwaysOne(_, _, _, _)
\* Mutant: the diagonal step always costs 1, equal items or not.
LevRowCostAlwaysOne(prev, b, t, cur) ==
    LET j == Len(cur)
    IN  IF j > Len(t) THEN cur
        ELSE LET cell == Min(Min(prev[j + 1] + 1, cur[j] + 1), prev[j] + 1)
             IN  LevRowCostAlwaysOne(prev, b, t, Append(cur, cell))

RECURSIVE LevRow(_, _, _, _)
\* One pass of the inner loop over j: row i of the matrix from row i-1, where
\* cur is the part of row i filled so far (matrix[i][0..j-1]).
LevRow(prev, b, t, cur) ==
    LET j == Len(cur)
    IN  IF j > Len(t) THEN cur
        ELSE LET cost == IF b # t[j] THEN 1 ELSE 0
                 cell == Min(Min(prev[j + 1] + 1, cur[j] + 1), prev[j] + cost)
             IN  LevRow(prev, b, t, Append(cur, cell))

RECURSIVE LevRows(_, _, _, _)
\* The outer loop over i: the last row of the matrix.
LevRows(prev, s, t, i) ==
    IF i > Len(s) THEN prev
    ELSE LevRows(LevRow(prev, s[i], t, <<i>>), s, t, i + 1)

\* The matrix cell matrix[len1][len2] over two sequences of comparable items.
LastCell(s, t) == LevRows([k \in 1..(Len(t) + 1) |-> k - 1], s, t, 1)[Len(t) + 1]

\* levenshteinDistance(s1, s2): the distance over the bytes of the strings.
levenshteinDistance(a, b) ==
    LET x == Bytes(a)
        y == Bytes(b)
    IN  IF Len(x) = 0 THEN Len(y)
        ELSE IF Len(y) = 0 THEN Len(x)
        ELSE LastCell(x, y)

\* The denominator of calculateSimilarity.
SimilarityDenominator(a, b) == Max(Len(Bytes(a)), Len(Bytes(b)))

calculateSimilarity(a, b) ==
    LET maxLen == SimilarityDenominator(a, b)
    IN  IF maxLen = 0 THEN One
        ELSE Frac(maxLen - levenshteinDistance(a, b), maxLen)

\* Mutant: normalizes by the transcription.
AccuracyDenominatorTranscribed(origProcessed, transProcessed) ==
    Len(Bytes(transProcessed))

\* Mutant: normalizes by the longer string, as calculateSimilarity does.
AccuracyDenominatorLonger(origProcessed, transProcessed) ==
    Max(Len(Bytes(origProcessed)), Len(Bytes(transProcessed)))

\* The denominator of the character accuracy (origLen).
AccuracyDenominator(origProcessed, transProcessed) == Len(Bytes(origProcessed))

\* Lines 1854-1860 of CalculateAccuracyMetrics: 1 - CER.
characterAccuracy(origProcessed, transProcessed) ==
    LET origLen == AccuracyDenominator(origProcessed, transProcessed)
        charDistance == levenshteinDistance(origProcessed, transProcessed)
    IN  IF origLen > 0 THEN Frac(origLen - charDistance, origLen) ELSE One

-----------------------------------------------------------------------------
(* Word distance *)

wordLevelLevenshteinDistance(words1, words2) ==
    IF Len(words1) = 0 THEN Len(words2)
    ELSE IF Len(words2) = 0 THEN Len(words1)
    ELSE LastCell(words1, words2)

\* Mutant: divides by the number of original words.
WordSimilarityByOriginal(words1, words2) ==
    LET maxLen == Max(Len(words1), Len(words2))
    IN  IF maxLen = 0 THEN One
        ELSE Frac(Len(words1) - wordLevelLevenshteinDistance(words1, words2),
                  Len(words1))

calculateWordSimilarity(words1, words2) ==
    LET maxLen == Max(Len(words1), Len(words2))
    IN  IF maxLen = 0 THEN One
        ELSE Frac(maxLen - wordLevelLevenshteinDistance(words1, words2), maxLen)

RECURSIVE DpRow(_, _, _, _)
\* Row i of dp in calculateWordLevelMetrics from row i-1 (lines 1779-1788).  The
\* row so far is bound to its value (p, c), as prev and cur hold values in the
\* code, so that it is computed once however often the cell reads it.
DpRow(prev, w, t, cur) ==
    CHOOSE row \in
        { LET j == Len(c)
          IN  IF j > Len(t) THEN c
              ELSE LET cell == IF w = t[j] THEN p[j]
                               ELSE 1 + Min(Min(p[j + 1], c[j]), p[j])
                   IN  DpRow(p, w, t, Append(c, cell)) :
          p \in {prev}, c \in {cur} } : TRUE

RECURSIVE DpRows(_, _, _, _)
\* The rows 0..m of dp, as a sequence of rows (row i at index i+1); the rows so
\* far are bound to their value (r).
DpRows(rows, o, t, i) ==
    CHOOSE table \in
        { IF i > Len(o) THEN r
          ELSE DpRows(Append(r, DpRow(r[i], o[i], t, <<i>>)), o, t, i + 1) :
          r \in {rows} } : TRUE

\* The filled table: Dp(o, t)[i + 1][j + 1] is dp[i][j].
Dp(o, t) == DpRows(<< [k \in 1..(Len(t) + 1) |-> k - 1] >>, o, t, 1)

charUnchanged == << original, transcribed, singleLine, ignorePatterns,
                    groundTruth, transcription, gtIdx, transIdx, processedGT,
                    processedTrans, ignoredCount, lastStep, s1, s2, orig, trans,
                    bi, bj, substitutions, deletions, insertions, correct,
                    wordOut, result >>

\* A call of levenshteinDistance(s1, s2).
CallLevenshtein ==
    /\ pc = "levenshteinDistance"
    /\ charOut' = [distance |-> levenshteinDistance(s1, s2)]
    /\ pc' = "levenshteinReturned"
    /\ UNCHANGED charUnchanged
    /\ UNCHANGED cmdVars

\* A call of calculateSimilarity(s1, s2).
CallSimilarity ==
    /\ pc = "calculateSimilarity"
    /\ charOut' = [similarity |-> calculateSimilarity(s1, s2)]
    /\ pc' = "similarityReturned"
    /\ UNCHANGED charUnchanged
    /\ UNCHANGED cmdVars

-----------------------------------------------------------------------------
(* calculateWordLevelMetrics *)

wordUnchanged == << original, transcribed, singleLine, ignorePatterns,
                    groundTruth, transcription, gtIdx, transIdx, processedGT,
                    processedTrans, ignoredCount, lastStep, s1, s2, charOut,
                    orig, trans, result >>

\* Lines 1764-1793: the table is filled (Dp) and the backtrack starts at (m, n).
WordEnter ==
    /\ pc = "calculateWordLevelMetrics"
    /\ bi' = Len(orig)
    /\ bj' = Len(trans)
    /\ substitutions' = 0
    /\ deletions' = 0
    /\ insertions' = 0
    /\ correct' = 0
    /\ pc' = "backtrack"
    /\ UNCHANGED wordOut
    /\ UNCHANGED wordUnchanged
    /\ UNCHANGED cmdVars

\* The guards of the if / else-if chain of the backtrack loop (lines 1796-1810).
IsCorrect(o, t, i, j) == i > 0 /\ j > 0 /\ o[i] = t[j]

\* Mutant: a deletion, where one is possible, is preferred to a substitution.
IsSubstitutionUnlessDeletion(o, t, i, j) ==
    /\ i > 0 /\ j > 0 /\ Dp(o, t)[i + 1][j + 1] = Dp(o, t)[i][j] + 1
    /\ Dp(o, t)[i + 1][j + 1] # Dp(o, t)[i][j + 1] + 1

IsSubstitution(o, t, i, j) ==
    i > 0 /\ j > 0 /\ Dp(o, t)[i + 1][j + 1] = Dp(o, t)[i][j] + 1

\* Mutant: a deletion is taken whatever the table holds.
IsDeletionWithoutCost(o, t, i, j) == i > 0

IsDeletion(o, t, i, j) == i > 0 /\ Dp(o, t)[i + 1][j + 1] = Dp(o, t)[i][j + 1] + 1

\* Mutant: an insertion is only taken below the first row of the table.
IsInsertionBelowFirstRow(o, t, i, j) ==
    i > 0 /\ j > 0 /\ Dp(o, t)[i + 1][j + 1] = Dp(o, t)[i + 1][j] + 1

IsInsertion(o, t, i, j) == j > 0 /\ Dp(o, t)[i + 1][j + 1] = Dp(o, t)[i + 1][j] + 1

\* for i > 0 || j > 0
LoopCondition(i, j) == ~(i <= 0 /\ j <= 0)

BacktrackCorrect ==
    /\ pc = "backtrack"
    /\ LoopCondition(bi, bj)
    /\ IsCorrect(orig, trans, bi, bj)
    /\ correct' = correct + 1
    /\ bi' = bi - 1
    /\ bj' = bj - 1
    /\ UNCHANGED << pc, substitutions, deletions, insertions, wordOut >>
    /\ UNCHANGED wordUnchanged
    /\ UNCHANGED cmdVars

BacktrackSubstitution ==
    /\ pc = "backtrack"
    /\ LoopCondition(bi, bj)
    /\ ~IsCorrect(orig, trans, bi, bj)
    /\ IsSubstitution(orig, trans, bi, bj)
    /\ substitutions' = substitutions + 1
    /\ bi' = bi - 1
    /\ bj' = bj - 1
    /\ UNCHANGED << pc, correct, deletions, insertions, wordOut >>
    /\ UNCHANGED wordUnchanged
    /\ UNCHANGED cmdVars

BacktrackDeletion ==
    /\ pc = "backtrack"
    /\ LoopCondition(bi, bj)
    /\ ~IsCorrect(orig, trans, bi, bj)
    /\ ~IsSubstitution(orig, trans, bi, bj)
    /\ IsDeletion(orig, trans, bi, bj)
    /\ deletions' = deletions + 1
    /\ bi' = bi - 1
    /\ UNCHANGED << pc, bj, correct, substitutions, insertions, wordOut >>
    /\ UNCHANGED wordUnchanged
    /\ UNCHANGED cmdVars

BacktrackInsertion ==
    /\ pc = "backtrack"
    /\ LoopCondition(bi, bj)
    /\ ~IsCorrect(orig, trans, bi, bj)
    /\ ~IsSubstitution(orig, trans, bi, bj)
    /\ ~IsDeletion(orig, trans, bi, bj)
    /\ IsInsertion(orig, trans, bi, bj)
    /\ insertions' = insertions + 1
    /\ bj' = bj - 1
    /\ UNCHANGED << pc, bi, correct, substitutions, deletions, wordOut >>
    /\ UNCHANGED wordUnchanged
    /\ UNCHANGED cmdVars

\* Mutant: divides without the m > 0 guard.
InnerWerUnguarded(totalEdits, m) == Frac(totalEdits, m)

\* wer of lines 1813-1817: totalEdits / m, or 0.0 for m = 0.
InnerWer(totalEdits, m) == IF m > 0 THEN Frac(totalEdits, m) ELSE Zero

\* 1.0 - x on fractions.
OneMinus(x) == Frac(x.den - x.num, x.den)

\* Mutant: deletions and insertions exchanged in the returned tuple.
WordReturnSwapped ==
    /\ pc = "backtrack"
    /\ ~LoopCondition(bi, bj)
    /\ LET totalEdits == substitutions + deletions + insertions
           wer == InnerWer(totalEdits, Len(orig))
       IN  wordOut' = [wordAccuracy |-> OneMinus(wer),
                       correct |-> correct,
                       substitutions |-> substitutions,
                       deletions |-> insertions,
                       insertions |-> deletions]
    /\ pc' = "wordsReturned"
    /\ UNCHANGED << bi, bj, substitutions, deletions, insertions, correct >>
    /\ UNCHANGED wordUnchanged
    /\ UNCHANGED cmdVars

\* The loop ends: lines 1813-1820.
WordReturn ==
    /\ pc = "backtrack"
    /\ ~LoopCondition(bi, bj)
    /\ LET totalEdits == substitutions + deletions + insertions
           wer == InnerWer(totalEdits, Len(orig))
       IN  wordOut' = [wordAccuracy |-> OneMinus(wer),
                       correct |-> correct,
                       substitutions |-> substitutions,
                       deletions |-> deletions,
                       insertions |-> insertions]
    /\ pc' = "wordsReturned"
    /\ UNCHANGED << bi, bj, substitutions, deletions, insertions, correct >>
    /\ UNCHANGED wordUnchanged
    /\ UNCHANGED cmdVars

-----------------------------------------------------------------------------
(* CalculateAccuracyMetrics *)

\* strings.ReplaceAll of "\n", "\r" and "\t" by " " (lines 1833-1838).
ReplaceBreaks(text) ==
    [k \in 1..Len(text) |-> IF text[k] \in {"\n", "\r", "\t"} THEN " " ELSE text[k]]

RECURSIVE ReplaceDoubleSpaces(_)
\* strings.ReplaceAll(text, "  ", " "): one pass, left to right, no overlaps.
ReplaceDoubleSpaces(text) ==
    IF Len(text) < 2 THEN text
    ELSE IF text[1] = " " /\ text[2] = " "
         THEN <<" ">> \o ReplaceDoubleSpaces(Drop(text, 2))
         ELSE <<text[1]>> \o ReplaceDoubleSpaces(Tail(text))

ContainsDoubleSpace(text) ==
    \E k \in 1..(Len(text) - 1) : text[k] = " " /\ text[k + 1] = " "

\* Mutant: one pass of ReplaceAll, without the loop.
NormalizeSpacesOnePass(text) == ReplaceDoubleSpaces(text)

RECURSIVE normalizeSpaces(_)
normalizeSpaces(text) ==
    IF ContainsDoubleSpace(text) THEN normalizeSpaces(ReplaceDoubleSpaces(text))
    ELSE text

\* The text handed to applyIgnorePatterns (lines 1825-1847).
Transformed(text, single) ==
    IF single THEN normalizeSpaces(ReplaceBreaks(text)) ELSE text

\* Lines 1825-1850: the transformations, then the call of applyIgnorePatterns.
Transform ==
    /\ pc = "CalculateAccuracyMetrics"
    /\ groundTruth' = Transformed(original, singleLine)
    /\ transcription' = Transformed(transcribed, singleLine)
    /\ pc' = "applyIgnorePatterns"
    /\ UNCHANGED << original, transcribed, singleLine, ignorePatterns, gtIdx,
                    transIdx, processedGT, processedTrans, ignoredCount,
                    lastStep, s1, s2, charOut, orig, trans, bi, bj,
                    substitutions, deletions, insertions, correct, wordOut,
                    result >>
    /\ UNCHANGED cmdVars

\* Lines 1852-1865: the character metrics and the word similarity of the
\* processed strings, then the call of calculateWordLevelMetrics on their words.
CharMetrics ==
    /\ pc = "aligned"
    /\ charOut' = [charSim |-> calculateSimilarity(processedGT, processedTrans),
                   charAcc |-> characterAccuracy(processedGT, processedTrans),
                   wordSim |-> calculateWordSimilarity(Fields(processedGT),
                                                       Fields(processedTrans))]
    /\ orig' = Fields(processedGT)
    /\ trans' = Fields(processedTrans)
    /\ pc' = "calculateWordLevelMetrics"
    /\ UNCHANGED << original, transcribed, singleLine, ignorePatterns,
                    groundTruth, transcription, gtIdx, transIdx, processedGT,
                    processedTrans, ignoredCount, lastStep, s1, s2, bi, bj,
                    substitutions, deletions, insertions, correct, wordOut,
                    result >>
    /\ UNCHANGED cmdVars

\* Lines 1867-1882: the returned EvalResult.
Assemble ==
    /\ pc = "wordsReturned"
    /\ result' = [CharacterSimilarity |-> charOut.charSim,
                  CharacterAccuracy |-> charOut.charAcc,
                  WordSimilarity |-> charOut.wordSim,
                  WordAccuracy |-> wordOut.wordAccuracy,
                  WordErrorRate |-> OneMinus(wordOut.wordAccuracy),
                  TotalWordsOriginal |-> Len(orig),
                  TotalWordsTranscribed |-> Len(trans),
                  CorrectWords |-> wordOut.correct,
                  Substitutions |-> wordOut.substitutions,
                  Deletions |-> wordOut.deletions,
                  Insertions |-> wordOut.insertions,
                  IgnoredCharsCount |-> ignoredCount]
    /\ pc' = "done"
    /\ UNCHANGED << original, transcribed, singleLine, ignorePatterns,
                    groundTruth, transcription, gtIdx, transIdx, processedGT,
                    processedTrans, ignoredCount, lastStep, s1, s2, charOut,
                    orig, trans, bi, bj, substitutions, deletions, insertions,
                    correct, wordOut >>
    /\ UNCHANGED cmdVars

-----------------------------------------------------------------------------
(* processEvaluation *)

\* Everything CalculateAccuracyMetrics and the functions below it work on.
pipelineVars == << original, transcribed, singleLine, ignorePatterns,
                   groundTruth, transcription, gtIdx, transIdx, processedGT,
                   processedTrans, ignoredCount, lastStep, s1, s2, charOut,
                   orig, trans, bi, bj, substitutions, deletions, insertions,
                   correct, wordOut, result >>

batchUnchanged == << caller, csvOpens, records, files, fileIdx, modelSummaries,
                     transcriptReadable, summaryResult, needsUpdate,
                     evalConfigPath, config, hasIgnoreFlag, hasSingleLineFlag,
                     backfillOverride, backfillIgnorePatterns,
                     backfillSingleLine >>

\* csv.Reader.ReadAll with the default FieldsPerRecord = 0: the first record
\* sets the number of fields and a record with another number is an error.
FieldCountError(recs) ==
    \E k \in 2..Len(recs) : recs[k].fields # recs[1].fields

\* Lines 1315-1318: os.Open fails.
OpenFails ==
    /\ pc = "processEvaluation"
    /\ ~csvOpens
    /\ err' = "failed to open CSV file"
    /\ pc' = "returned"
    /\ UNCHANGED << TestRows, dataRows, rowIdx, results >>
    /\ UNCHANGED batchUnchanged
    /\ UNCHANGED pipelineVars

\* Lines 1321-1325: reader.ReadAll fails.
ReadFails ==
    /\ pc = "processEvaluation"
    /\ csvOpens
    /\ FieldCountError(records)
    /\ err' = "failed to read CSV"
    /\ pc' = "returned"
    /\ UNCHANGED << TestRows, dataRows, rowIdx, results >>
    /\ UNCHANGED batchUnchanged
    /\ UNCHANGED pipelineVars

\* Lines 1327-1329: no record at all.
FileEmpty ==
    /\ pc = "processEvaluation"
    /\ csvOpens
    /\ ~FieldCountError(records)
    /\ Len(records) = 0
    /\ err' = "CSV file is empty"
    /\ pc' = "returned"
    /\ UNCHANGED << TestRows, dataRows, rowIdx, results >>
    /\ UNCHANGED batchUnchanged
    /\ UNCHANGED pipelineVars

\* Lines 1331-1344: the header row is dropped, TestRows defaults to every row.
ReadCSV ==
    /\ pc = "processEvaluation"
    /\ csvOpens
    /\ ~FieldCountError(records)
    /\ Len(records) # 0
    /\ LET rows == IF records[1].image THEN Tail(records) ELSE records
       IN  /\ dataRows' = rows
           /\ TestRows' = IF TestRows = {} THEN 0..(Len(rows) - 1) ELSE TestRows
    /\ rowIdx' = 0
    /\ results' = <<>>
    /\ pc' = "rows"
    /\ UNCHANGED err
    /\ UNCHANGED batchUnchanged
    /\ UNCHANGED pipelineVars

\* Lines 1346-1349: a row that is not in TestRows.
RowNotSelected ==
    /\ pc = "rows"
    /\ rowIdx < Len(dataRows)
    /\ rowIdx \notin TestRows
    /\ rowIdx' = rowIdx + 1
    /\ UNCHANGED << pc, TestRows, dataRows, results, err >>
    /\ UNCHANGED batchUnchanged
    /\ UNCHANGED pipelineVars

\* Lines 1350-1353: a row of fewer than three columns.
RowInsufficientColumns ==
    /\ pc = "rows"
    /\ rowIdx < Len(dataRows)
    /\ rowIdx \in TestRows
    /\ dataRows[rowIdx + 1].fields < 3
    /\ rowIdx' = rowIdx + 1
    /\ UNCHANGED << pc, TestRows, dataRows, results, err >>
    /\ UNCHANGED batchUnchanged
    /\ UNCHANGED pipelineVars

\* Lines 1355-1359: processRow returned an error.
RowError ==
    /\ pc = "rows"
    /\ rowIdx < Len(dataRows)
    /\ rowIdx \in TestRows
    /\ dataRows[rowIdx + 1].fields >= 3
    /\ dataRows[rowIdx + 1].fails
    /\ rowIdx' = rowIdx + 1
    /\ UNCHANGED << pc, TestRows, dataRows, results, err >>
    /\ UNCHANGED batchUnchanged
    /\ UNCHANGED pipelineVars

\* Lines 1355-1363: processRow succeeded; its result is appended (a result is
\* identified by the index of its row).
RowProcessed ==
    /\ pc = "rows"
    /\ rowIdx < Len(dataRows)
    /\ rowIdx \in TestRows
    /\ dataRows[rowIdx + 1].fields >= 3
    /\ ~dataRows[rowIdx + 1].fails
    /\ results' = Append(results, rowIdx)
    /\ rowIdx' = rowIdx + 1
    /\ UNCHANGED << pc, TestRows, dataRows, err >>
    /\ UNCHANGED batchUnchanged
    /\ UNCHANGED pipelineVars

\* Line 1366: return results, nil.
ReturnResults ==
    /\ pc = "rows"
    /\ ~(rowIdx < Len(dataRows))
    /\ pc' = "returned"
    /\ UNCHANGED << TestRows, dataRows, rowIdx, results, err >>
    /\ UNCHANGED batchUnchanged
    /\ UNCHANGED pipelineVars

-----------------------------------------------------------------------------
(* runCSV *)

csvUnchanged == << caller, csvOpens, records, TestRows, dataRows, rowIdx,
                   results, err, transcriptReadable, summaryResult, needsUpdate,
                   evalConfigPath, config, hasIgnoreFlag, hasSingleLineFlag,
                   backfillOverride, backfillIgnorePatterns, backfillSingleLine >>

FracAdd(x, y) == Frac(x.num * y.den + y.num * x.den, x.den * y.den)

RECURSIVE Total(_, _)
\* The running total of one field over the results of a file (lines 1058-1080).
Total(fileResults, field) ==
    IF fileResults = <<>> THEN Zero
    ELSE FracAdd(Head(fileResults)[field], Total(Tail(fileResults), field))

\* total / count (lines 1082, 1095-1108).
Average(fileResults, field) ==
    LET total == Total(fileResults, field)
    IN  Frac(total.num, total.den * Len(fileResults))

\* The ModelSummary of a file (lines 1095-1108): the columns the sort reads or
\* the claim names.
Summarize(fileResults) ==
    [TotalEvaluations |-> Len(fileResults),
     AvgWordSimilarity |-> Average(fileResults, "WordSimilarity"),
     AvgWordAccuracy |-> Average(fileResults, "WordAccuracy")]

\* Lines 1018-1027: no file in evals/.
NoFiles ==
    /\ pc = "runCSV"
    /\ Len(files) = 0
    /\ pc' = "returned"
    /\ UNCHANGED << files, fileIdx, modelSummaries >>
    /\ UNCHANGED csvUnchanged
    /\ UNCHANGED pipelineVars

\* Lines 1033-1048: a file without results (or one that cannot be read or
\* parsed) is passed over.
SkipFile ==
    /\ pc = "runCSV"
    /\ Len(files) # 0
    /\ fileIdx < Len(files)
    /\ Len(files[fileIdx + 1]) = 0
    /\ fileIdx' = fileIdx + 1
    /\ UNCHANGED << pc, files, modelSummaries >>
    /\ UNCHANGED csvUnchanged
    /\ UNCHANGED pipelineVars

\* Lines 1050-1110: the averages of a file are appended to modelSummaries.
CollectSummary ==
    /\ pc = "runCSV"
    /\ Len(files) # 0
    /\ fileIdx < Len(files)
    /\ Len(files[fileIdx + 1]) # 0
    /\ modelSummaries' = Append(modelSummaries, Summarize(files[fileIdx + 1]))
    /\ fileIdx' = fileIdx + 1
    /\ UNCHANGED << pc, files >>
    /\ UNCHANGED csvUnchanged
    /\ UNCHANGED pipelineVars

\* Lines 1112-1115: nothing collected.
NoSummaries ==
    /\ pc = "runCSV"
    /\ Len(files) # 0
    /\ ~(fileIdx < Len(files))
    /\ Len(modelSummaries) = 0
    /\ pc' = "returned"
    /\ UNCHANGED << files, fileIdx, modelSummaries >>
    /\ UNCHANGED csvUnchanged
    /\ UNCHANGED pipelineVars

\* The comparison function handed to slices.SortFunc (lines 1119-1127): a comes
\* before b when its AvgWordSimilarity is greater.
Less(a, b) ==
    ~FracLeq(a.AvgWordSimilarity, b.AvgWordSimilarity)

\* The orders slices.SortFunc may leave the summaries in: any arrangement in
\* which no later element comes before an earlier one (the sort is not stable).
SortedArrangements(ms) ==
    LET n == Len(ms)
        perms == {p \in [1..n -> 1..n] : \A i \in 1..n : \E k \in 1..n : p[k] = i}
    IN  {[k \in 1..n |-> ms[p[k]]] : p \in
            {q \in perms : \A i \in 1..n : \A j \in (i + 1)..n :
                              ~Less(ms[q[j]], ms[q[i]])}}

\* Lines 1117-1159: the summaries are sorted, then printed row by row in that
\* order.
SortSummaries ==
    /\ pc = "runCSV"
    /\ Len(files) # 0
    /\ ~(fileIdx < Len(files))
    /\ Len(modelSummaries) # 0
    /\ modelSummaries' \in SortedArrangements(modelSummaries)
    /\ pc' = "printed"
    /\ UNCHANGED << files, fileIdx >>
    /\ UNCHANGED csvUnchanged
    /\ UNCHANGED pipelineVars

-----------------------------------------------------------------------------
(* runBackfill *)

backfillUnchanged == << csvOpens, records, TestRows, dataRows, rowIdx, results,
                        err, files, fileIdx, modelSummaries, transcriptReadable >>

\* The inputs and results of a call, which its caller only reads.
callUnchanged == << original, transcribed, groundTruth, transcription, gtIdx,
                    transIdx, processedGT, processedTrans, ignoredCount,
                    lastStep, s1, s2, charOut, orig, trans, bi, bj,
                    substitutions, deletions, insertions, correct, wordOut,
                    result >>

\* The configurations an evaluation file named by --config may hold.
SavedConfigs == [IgnorePatterns : { <<>>, << <<"|">> >> }, SingleLine : BOOLEAN]

\* var config EvalConfig: the zero value.
ZeroConfig == [IgnorePatterns |-> <<>>, SingleLine |-> FALSE]

\* runEval, lines 895-919 and 935, down to the call in processRow (line 1397):
\* the config is loaded from the file of --config or built from the flags, and
\* the row is evaluated with the package variables ignorePatterns and
\* singleLine, which hold the --ignore and --single-line flags of eval.
RunEval ==
    /\ pc = "runEval"
    /\ IF evalConfigPath # ""
       THEN config' \in SavedConfigs
       ELSE config' = [IgnorePatterns |-> ignorePatterns, SingleLine |-> singleLine]
    /\ caller' = "processRow"
    /\ pc' = "CalculateAccuracyMetrics"
    /\ UNCHANGED << singleLine, ignorePatterns, summaryResult, needsUpdate,
                    evalConfigPath, hasIgnoreFlag, hasSingleLineFlag,
                    backfillOverride, backfillIgnorePatterns, backfillSingleLine >>
    /\ UNCHANGED callUnchanged
    /\ UNCHANGED backfillUnchanged

\* processRow, lines 1398-1421, and the file written from it (lines 940-949):
\* the metrics of the evaluation become the stored result that a later backfill
\* loads, next to the config.
StoreResult ==
    /\ pc = "done"
    /\ caller = "processRow"
    /\ summaryResult' = result
    /\ caller' = "runBackfill"
    /\ pc' = "runBackfill"
    /\ UNCHANGED << singleLine, ignorePatterns, needsUpdate >>
    /\ UNCHANGED flagVars
    /\ UNCHANGED callUnchanged
    /\ UNCHANGED backfillUnchanged

\* useOverride of line 1185.
UseOverride(override, hasIgnore, hasSingle) ==
    IF override THEN TRUE ELSE IF hasIgnore THEN TRUE ELSE hasSingle

\* Lines 1182-1242: the flags of the backfill command line are read and the
\* ignore patterns and the single-line setting of the file are settled.  A flag
\* that was not passed has its default value.
BackfillSettings ==
    /\ pc = "runBackfill"
    /\ \E override \in BOOLEAN, hasIgnore \in BOOLEAN, hasSingle \in BOOLEAN,
          single \in BOOLEAN :
          /\ hasSingle \/ ~single
          /\ backfillOverride' = override
          /\ hasIgnoreFlag' = hasIgnore
          /\ hasSingleLineFlag' = hasSingle
          /\ backfillIgnorePatterns' = IF hasIgnore THEN << <<"|">> >> ELSE <<>>
          /\ backfillSingleLine' = single
          /\ IF UseOverride(override, hasIgnore, hasSingle)
             THEN /\ ignorePatterns' = IF hasIgnore THEN << <<"|">> >> ELSE <<>>
                  /\ singleLine' = IF hasSingle THEN single ELSE FALSE
             ELSE /\ ignorePatterns' = config.IgnorePatterns
                  /\ singleLine' = config.SingleLine
    /\ pc' = "results"
    /\ UNCHANGED << caller, summaryResult, needsUpdate, evalConfigPath, config >>
    /\ UNCHANGED callUnchanged
    /\ UNCHANGED backfillUnchanged

\* Lines 1247-1249: a result without provider response is passed over.
BackfillSkipEmpty ==
    /\ pc = "results"
    /\ transcribed = <<>>
    /\ pc' = "backfilled"
    /\ UNCHANGED << caller, singleLine, ignorePatterns, summaryResult, needsUpdate >>
    /\ UNCHANGED flagVars
    /\ UNCHANGED callUnchanged
    /\ UNCHANGED backfillUnchanged

\* Lines 1251-1256: the transcript cannot be read.
BackfillUnreadable ==
    /\ pc = "results"
    /\ transcribed # <<>>
    /\ ~transcriptReadable
    /\ pc' = "backfilled"
    /\ UNCHANGED << caller, singleLine, ignorePatterns, summaryResult, needsUpdate >>
    /\ UNCHANGED flagVars
    /\ UNCHANGED callUnchanged
    /\ UNCHANGED backfillUnchanged

\* Lines 1258-1259: CalculateAccuracyMetrics is called with the ignore patterns
\* and the single-line setting the backfill settled on.
BackfillRecalculate ==
    /\ pc = "results"
    /\ transcribed # <<>>
    /\ transcriptReadable
    /\ pc' = "CalculateAccuracyMetrics"
    /\ UNCHANGED << caller, singleLine, ignorePatterns, summaryResult, needsUpdate >>
    /\ UNCHANGED flagVars
    /\ UNCHANGED callUnchanged
    /\ UNCHANGED backfillUnchanged

\* Lines 1261-1267: the stored result is compared with the new metrics and
\* updated.
BackfillUpdate ==
    /\ pc = "done"
    /\ caller = "runBackfill"
    /\ IF ~FracEq(summaryResult.CharacterAccuracy, result.CharacterAccuracy)
       THEN TRUE
       ELSE ~FracEq(summaryResult.WordSimilarity, result.WordSimilarity)
    /\ summaryResult' = [summaryResult EXCEPT
                            !.CharacterAccuracy = result.CharacterAccuracy,
                            !.WordSimilarity = result.WordSimilarity]
    /\ needsUpdate' = TRUE
    /\ pc' = "backfilled"
    /\ UNCHANGED << caller, singleLine, ignorePatterns >>
    /\ UNCHANGED flagVars
    /\ UNCHANGED callUnchanged
    /\ UNCHANGED backfillUnchanged

\* Lines 1261-1262: both compared fields already have the new values.
BackfillUpToDate ==
    /\ pc = "done"
    /\ caller = "runBackfill"
    /\ FracEq(summaryResult.CharacterAccuracy, result.CharacterAccuracy)
    /\ FracEq(summaryResult.WordSimilarity, result.WordSimilarity)
    /\ pc' = "backfilled"
    /\ UNCHANGED << caller, singleLine, ignorePatterns, summaryResult, needsUpdate >>
    /\ UNCHANGED flagVars
    /\ UNCHANGED callUnchanged
    /\ UNCHANGED backfillUnchanged

-----------------------------------------------------------------------------
(* Specifications *)

\* Code points of the evaluated texts, of the aligned texts and of the strings
\* handed to the character functions.
EvalAlphabet == {"a", "A", " ", "\n", "|"}

AlignAlphabet == {"a", " ", "|"}

CharAlphabet == {"a", "b", "U+00E9"}

\* The --ignore lists tried.
EvalPatternLists == { <<>>, << <<"|">> >>, << <<"|", "|">>, <<"|">> >> }

AlignPatternLists ==
    { <<>>,
      << <<"|">> >>,
      << <<"|", "|">> >>,
      << <<"|">>, <<"|", "|">> >>,
      << <<"|", "|">>, <<"|">> >>,
      << <<>>, <<"|">> >>,
      << <<" ">> >> }

\* The words compared by calculateWordLevelMetrics.
WordSet == { <<"a">>, <<"b">>, <<"a", "b">> }

NoWordOut == [wordAccuracy |-> One, correct |-> 0, substitutions |-> 0,
              deletions |-> 0, insertions |-> 0]

NoResult == [CharacterSimilarity |-> One, CharacterAccuracy |-> One,
             WordSimilarity |-> One, WordAccuracy |-> One,
             WordErrorRate |-> Zero, TotalWordsOriginal |-> 0,
             TotalWordsTranscribed |-> 0, CorrectWords |-> 0,
             Substitutions |-> 0, Deletions |-> 0, Insertions |-> 0,
             IgnoredCharsCount |-> 0]

\* Everything but the parameters of the function called first.
PipelineIdle ==
    /\ gtIdx = 0
    /\ transIdx = 0
    /\ processedGT = <<>>
    /\ processedTrans = <<>>
    /\ ignoredCount = 0
    /\ lastStep = "none"
    /\ charOut = [distance |-> 0]
    /\ bi = 0
    /\ bj = 0
    /\ substitutions = 0
    /\ deletions = 0
    /\ insertions = 0
    /\ correct = 0
    /\ wordOut = NoWordOut
    /\ result = NoResult

\* No eval or backfill command line has been read.
FlagsIdle ==
    /\ evalConfigPath = ""
    /\ config = ZeroConfig
    /\ hasIgnoreFlag = FALSE
    /\ hasSingleLineFlag = FALSE
    /\ backfillOverride = FALSE
    /\ backfillIgnorePatterns = <<>>
    /\ backfillSingleLine = FALSE

\* The commands around it have not run.
CmdIdle ==
    /\ caller = "none"
    /\ csvOpens = TRUE
    /\ records = <<>>
    /\ TestRows = {}
    /\ dataRows = <<>>
    /\ rowIdx = 0
    /\ results = <<>>
    /\ err = "nil"
    /\ files = <<>>
    /\ fileIdx = 0
    /\ modelSummaries = <<>>
    /\ transcriptReadable = TRUE
    /\ summaryResult = NoResult
    /\ needsUpdate = FALSE
    /\ FlagsIdle

Idle == PipelineIdle /\ CmdIdle

\* A call of CalculateAccuracyMetrics(original, transcribed, ignorePatterns,
\* singleLine).
Init ==
    /\ pc = "CalculateAccuracyMetrics"
    /\ original \in SeqsUpTo(EvalAlphabet, MaxLen)
    /\ transcribed \in SeqsUpTo(EvalAlphabet, MaxLen)
    /\ ignorePatterns \in EvalPatternLists
    /\ singleLine \in BOOLEAN
    /\ groundTruth = <<>>
    /\ transcription = <<>>
    /\ s1 = <<>>
    /\ s2 = <<>>
    /\ orig = <<>>
    /\ trans = <<>>
    /\ Idle

Next ==
    \/ Transform
    \/ AlignEnter
    \/ ScanStandalone
    \/ ScanEmbedded
    \/ ScanCopy
    \/ ScanExit
    \/ CharMetrics
    \/ WordEnter
    \/ BacktrackCorrect
    \/ BacktrackSubstitution
    \/ BacktrackDeletion
    \/ BacktrackInsertion
    \/ WordReturn
    \/ Assemble

Spec == Init /\ [][Next]_vars

\* A call of applyIgnorePatterns(groundTruth, transcription, ignorePatterns).
InitAlign ==
    /\ pc = "applyIgnorePatterns"
    /\ groundTruth \in SeqsUpTo(AlignAlphabet, MaxGT)
    /\ transcription \in SeqsUpTo(AlignAlphabet, MaxTrans)
    /\ ignorePatterns \in AlignPatternLists
    /\ original = <<>>
    /\ transcribed = <<>>
    /\ singleLine = FALSE
    /\ s1 = <<>>
    /\ s2 = <<>>
    /\ orig = <<>>
    /\ trans = <<>>
    /\ Idle

NextAlign ==
    \/ AlignEnter
    \/ ScanStandalone
    \/ ScanEmbedded
    \/ ScanCopy
    \/ ScanExit

SpecAlign == InitAlign /\ [][NextAlign]_vars

\* The same call, run to completion: the function is sequential code, so a loop
\* iteration or the return that is possible is eventually taken.
SpecAlignLive == InitAlign /\ [][NextAlign]_vars /\ WF_vars(NextAlign)

\* A call of levenshteinDistance(s1, s2) or of calculateSimilarity(s1, s2).
InitChar ==
    /\ pc \in {"levenshteinDistance", "calculateSimilarity"}
    /\ s1 \in SeqsUpTo(CharAlphabet, MaxStr)
    /\ s2 \in SeqsUpTo(CharAlphabet, MaxStr)
    /\ original = <<>>
    /\ transcribed = <<>>
    /\ singleLine = FALSE
    /\ ignorePatterns = <<>>
    /\ groundTruth = <<>>
    /\ transcription = <<>>
    /\ orig = <<>>
    /\ trans = <<>>
    /\ Idle

NextChar ==
    \/ CallLevenshtein
    \/ CallSimilarity

SpecChar == InitChar /\ [][NextChar]_vars

\* A call of calculateWordLevelMetrics(orig, trans).
InitWords ==
    /\ pc = "calculateWordLevelMetrics"
    /\ orig \in SeqsUpTo(WordSet, MaxWords)
    /\ trans \in SeqsUpTo(WordSet, MaxWords)
    /\ original = <<>>
    /\ transcribed = <<>>
    /\ singleLine = FALSE
    /\ ignorePatterns = <<>>
    /\ groundTruth = <<>>
    /\ transcription = <<>>
    /\ s1 = <<>>
    /\ s2 = <<>>
    /\ Idle

NextWords ==
    \/ WordEnter
    \/ BacktrackCorrect
    \/ BacktrackSubstitution
    \/ BacktrackDeletion
    \/ BacktrackInsertion
    \/ WordReturn

SpecWords == InitWords /\ [][NextWords]_vars

\* The same call, run to completion: the function is sequential code, so a loop
\* iteration or the return that is possible is eventually taken.
SpecWordsLive == InitWords /\ [][NextWords]_vars /\ WF_vars(NextWords)

\* No call of CalculateAccuracyMetrics or of the functions below it is under way.
NoCall ==
    /\ original = <<>>
    /\ transcribed = <<>>
    /\ singleLine = FALSE
    /\ ignorePatterns = <<>>
    /\ groundTruth = <<>>
    /\ transcription = <<>>
    /\ s1 = <<>>
    /\ s2 = <<>>
    /\ orig = <<>>
    /\ trans = <<>>
    /\ PipelineIdle

\* A record of the CSV file: whether its first field is "image", how many fields
\* it has, and whether processRow fails on it (invalid public value, unreadable
\* transcript or image, provider error).
HeaderRecords == [image : {TRUE}, fields : {2, 3}, fails : {TRUE}]

RowRecords == [image : {FALSE}, fields : {2, 3}, fails : BOOLEAN]

CsvFiles ==
    SeqsUpTo(RowRecords, MaxRows)
    \cup {<<h>> \o rows : h \in HeaderRecords, rows \in SeqsUpTo(RowRecords, MaxRows)}

\* A call of processEvaluation(config).
InitBatch ==
    /\ pc = "processEvaluation"
    /\ csvOpens \in BOOLEAN
    /\ records \in CsvFiles
    /\ TestRows \in SUBSET (0..(MaxRows - 1))
    /\ dataRows = <<>>
    /\ rowIdx = 0
    /\ results = <<>>
    /\ err = "nil"
    /\ caller = "none"
    /\ files = <<>>
    /\ fileIdx = 0
    /\ modelSummaries = <<>>
    /\ transcriptReadable = TRUE
    /\ summaryResult = NoResult
    /\ needsUpdate = FALSE
    /\ FlagsIdle
    /\ NoCall

NextBatch ==
    \/ OpenFails
    \/ ReadFails
    \/ FileEmpty
    \/ ReadCSV
    \/ RowNotSelected
    \/ RowInsufficientColumns
    \/ RowError
    \/ RowProcessed
    \/ ReturnResults

SpecBatch == InitBatch /\ [][NextBatch]_vars

\* The word sequences behind the stored results of the evaluation files.
StoredWordPairs ==
    { << << <<"a">> >>, << <<"a">> >> >>,
      << << <<"a">> >>, << <<"b">> >> >>,
      << << <<"a">> >>, << <<"a">>, <<"b">>, <<"b">> >> >>,
      << << <<"a">>, <<"b">>, <<"a">>, <<"b">> >>, << <<"a">> >> >> }

\* The word metrics a stored result carries for such a pair: the similarity and
\* 1 - distance / number of original words.
StoredResults ==
    { [WordSimilarity |-> calculateWordSimilarity(w[1], w[2]),
       WordAccuracy |-> OneMinus(InnerWer(wordLevelLevenshteinDistance(w[1], w[2]),
                                          Len(w[1])))] : w \in StoredWordPairs }

\* A run of the csv command over the files of evals/.
InitCSV ==
    /\ pc = "runCSV"
    /\ files \in SeqsUpTo(SeqsUpTo(StoredResults, MaxResults), MaxFiles)
    /\ fileIdx = 0
    /\ modelSummaries = <<>>
    /\ caller = "none"
    /\ csvOpens = TRUE
    /\ records = <<>>
    /\ TestRows = {}
    /\ dataRows = <<>>
    /\ rowIdx = 0
    /\ results = <<>>
    /\ err = "nil"
    /\ transcriptReadable = TRUE
    /\ summaryResult = NoResult
    /\ needsUpdate = FALSE
    /\ FlagsIdle
    /\ NoCall

NextCSV ==
    \/ NoFiles
    \/ SkipFile
    \/ CollectSummary
    \/ NoSummaries
    \/ SortSummaries

SpecCSV == InitCSV /\ [][NextCSV]_vars

StoredAlphabet == {"a", "b", " ", "|"}

\* An eval run over one row, given --ignore and --single-line (ignorePatterns,
\* singleLine) and possibly --config, its file stored, and later a backfill of
\* the stored result.
InitBackfill ==
    /\ pc = "runEval"
    /\ caller = "none"
    /\ evalConfigPath \in {"", "evals/previous.yaml"}
    /\ config = ZeroConfig
    /\ hasIgnoreFlag = FALSE
    /\ hasSingleLineFlag = FALSE
    /\ backfillOverride = FALSE
    /\ backfillIgnorePatterns = <<>>
    /\ backfillSingleLine = FALSE
    /\ original \in SeqsUpTo(StoredAlphabet, MaxStored)
    /\ transcribed \in SeqsUpTo(StoredAlphabet, MaxStored)
    /\ ignorePatterns \in { <<>>, << <<"|">> >> }
    /\ singleLine \in BOOLEAN
    /\ transcriptReadable \in BOOLEAN
    /\ summaryResult = NoResult
    /\ needsUpdate = FALSE
    /\ groundTruth = <<>>
    /\ transcription = <<>>
    /\ s1 = <<>>
    /\ s2 = <<>>
    /\ orig = <<>>
    /\ trans = <<>>
    /\ PipelineIdle
    /\ csvOpens = TRUE
    /\ records = <<>>
    /\ TestRows = {}
    /\ dataRows = <<>>
    /\ rowIdx = 0
    /\ results = <<>>
    /\ err = "nil"
    /\ files = <<>>
    /\ fileIdx = 0
    /\ modelSummaries = <<>>

NextBackfill ==
    \/ RunEval
    \/ Transform
    \/ AlignEnter
    \/ ScanStandalone
    \/ ScanEmbedded
    \/ ScanCopy
    \/ ScanExit
    \/ CharMetrics
    \/ WordEnter
    \/ BacktrackCorrect
    \/ BacktrackSubstitution
    \/ BacktrackDeletion
    \/ BacktrackInsertion
    \/ WordReturn
    \/ Assemble
    \/ StoreResult
    \/ BackfillSettings
    \/ BackfillSkipEmpty
    \/ BackfillUnreadable
    \/ BackfillRecalculate
    \/ BackfillUpdate
    \/ BackfillUpToDate

SpecBackfill == InitBackfill /\ [][NextBackfill]_vars

\* The texts of a call that exercises the single-line transformation.
TextAlphabet == {"a", " ", "\n", "\r", "\t"}

\* A call of CalculateAccuracyMetrics followed up to the call of
\* applyIgnorePatterns: the transformations of lines 1825-1847.
InitNormalize ==
    /\ pc = "CalculateAccuracyMetrics"
    /\ original \in SeqsUpTo(TextAlphabet, MaxText)
    /\ transcribed \in SeqsUpTo(TextAlphabet, MaxText)
    /\ ignorePatterns = <<>>
    /\ singleLine \in BOOLEAN
    /\ groundTruth = <<>>
    /\ transcription = <<>>
    /\ s1 = <<>>
    /\ s2 = <<>>
    /\ orig = <<>>
    /\ trans = <<>>
    /\ Idle

NextNormalize == Transform

SpecNormalize == InitNormalize /\ [][NextNormalize]_vars

-----------------------------------------------------------------------------
(* Properties of applyIgnorePatterns *)

\* The first index k >= from where the string ends or where the code point is
\* (space = TRUE) or is not (space = FALSE) whitespace.
RunEnd(t, from, space) ==
    CHOOSE k \in from..Len(t) :
        /\ (k = Len(t) \/ IsSpace(t[k + 1]) = space)
        /\ \A h \in from..(k - 1) : IsSpace(t[h + 1]) # space

\* Whitespace or a string edge on both sides of gt[at .. at+n-1] (0-based).
Bounded(gt, at, n) ==
    /\ (at = 0 \/ IsSpace(gt[at]))
    /\ (at + n = Len(gt) \/ IsSpace(gt[at + n + 1]))

\* A loop iteration of the scan that handled a pattern match.
MatchStep ==
    /\ pc = "scan"
    /\ pc' = "scan"
    /\ gtIdx' # gtIdx
    /\ lastStep' \in {"standalone", "embedded"}

\* C2: a pattern match is handled as standalone exactly when the code point
\* before it is whitespace or the start of the string and the code point after
\* it is whitespace or the end of the string; a standalone match adds nothing to
\* the output ground truth, consumes the whole pattern, and moves the
\* transcription cursor over a whitespace run and then over exactly one run of
\* non-whitespace code points, whatever the length of the pattern.
C2_StandaloneRule ==
    [][ /\ (pc = "scan" /\ pc' = "scan" /\ gtIdx' # gtIdx) =>
             ((lastStep' # "copy") <=>
                 (MatchedPattern(groundTruth, gtIdx, ignorePatterns) # <<>>))
        /\ MatchStep =>
             LET n == Len(MatchedPattern(groundTruth, gtIdx, ignorePatterns))
             IN  /\ (lastStep' = "standalone") <=> Bounded(groundTruth, gtIdx, n)
                 /\ (lastStep' = "standalone") =>
                      /\ gtIdx' = gtIdx + n
                      /\ processedGT' = processedGT
                      /\ processedTrans' = processedTrans
                      /\ transIdx' = RunEnd(transcription,
                                            RunEnd(transcription, transIdx, FALSE),
                                            TRUE)
      ]_vars

\* C2 witness: a two-code-point pattern standing alone made the transcription
\* cursor pass a leading space and a two-letter word.
C2_Witness ==
    /\ pc = "scan"
    /\ lastStep = "standalone"
    /\ ignorePatterns = << <<"|", "|">> >>
    /\ groundTruth = <<"|", "|", " ", "a">>
    /\ gtIdx = 2
    /\ transcription = <<" ", "a", "a", " ">>
    /\ transIdx = 3

LiteralMatches(gt, at, patterns) ==
    {k \in 1..Len(patterns) :
        /\ at + Len(patterns[k]) <= Len(gt)
        /\ SubSeq(gt, at + 1, at + Len(patterns[k])) = patterns[k]}

\* An iteration of the scan.
ScanStep == pc = "scan" /\ pc' = "scan" /\ gtIdx' # gtIdx

\* C23: at each ground-truth position the patterns are tried in the order of
\* the list and the first that matches literally there is the one used: it alone
\* settles how many ground-truth code points are consumed and whether the match
\* is standalone or embedded, whatever patterns match later in the list (an
\* empty pattern, which matches everywhere, leaves the position to be copied).
C23_FirstMatchWins ==
    [][ ScanStep =>
          LET K == LiteralMatches(groundTruth, gtIdx, ignorePatterns)
              first == CHOOSE k \in K : \A h \in K : k <= h
              n == Len(ignorePatterns[first])
          IN  IF K = {} THEN lastStep' = "copy"
              ELSE IF n = 0 THEN lastStep' = "copy" /\ gtIdx' = gtIdx + 1
              ELSE /\ gtIdx' = gtIdx + n
                   /\ lastStep' = IF Bounded(groundTruth, gtIdx, n)
                                  THEN "standalone" ELSE "embedded"
                   /\ processedGT' = processedGT
                   /\ processedTrans' = processedTrans
      ]_vars

\* C23 witness: "|" listed before "||" on a ground truth "||": the first
\* iteration consumed one code point as an embedded match, where the list in
\* the other order consumes both as one standalone match.
C23_Witness ==
    /\ pc = "scan"
    /\ ignorePatterns = << <<"|">>, <<"|", "|">> >>
    /\ groundTruth = <<"|", "|">>
    /\ Cardinality(LiteralMatches(groundTruth, 0, ignorePatterns)) = 2
    /\ gtIdx = 1
    /\ lastStep = "embedded"

\* Patterns as the specification defines them: none is the empty string.
NonEmptyPatterns(patterns) == \A k \in 1..Len(patterns) : patterns[k] # <<>>

\* The code point c stands at the 0-based index at of gt, next to another c.
InRunOf(gt, at, c) ==
    /\ at < Len(gt)
    /\ gt[at + 1] = c
    /\ \/ at > 0 /\ gt[at] = c
       \/ at + 1 < Len(gt) /\ gt[at + 2] = c

\* An iteration that handled one code point as an embedded match.
EmbeddedOne ==
    /\ lastStep' = "embedded"
    /\ gtIdx' = gtIdx + 1
    /\ transIdx' = IF transIdx < Len(transcription) THEN transIdx + 1 ELSE transIdx
    /\ processedGT' = processedGT
    /\ processedTrans' = processedTrans

\* C24 as stated: each of two or more adjacent occurrences of a pattern of one
\* character, whichever it is and whatever other (non-empty) patterns the list
\* holds, is handled as an embedded match: it removes one ground-truth code
\* point and skips one transcription code point if one remains.
C24_AdjacentOccurrencesEmbedded ==
    [][ (/\ ScanStep
         /\ NonEmptyPatterns(ignorePatterns)
         /\ \E k \in 1..Len(ignorePatterns) :
               /\ Len(ignorePatterns[k]) = 1
               /\ InRunOf(groundTruth, gtIdx, ignorePatterns[k][1]))
        => EmbeddedOne
      ]_vars

\* C24 amended: the same for a pattern of one character that is not whitespace,
\* at a position where no earlier pattern of the list matches.
C24_AdjacentMarkersEmbedded ==
    [][ (/\ ScanStep
         /\ LET K == LiteralMatches(groundTruth, gtIdx, ignorePatterns)
            IN  \E k \in K :
                   /\ \A h \in K : k <= h
                   /\ Len(ignorePatterns[k]) = 1
                   /\ ~IsSpace(ignorePatterns[k][1])
                   /\ InRunOf(groundTruth, gtIdx, ignorePatterns[k][1]))
        => EmbeddedOne
      ]_vars

\* C24 witness: two adjacent markers between spaces, each handled on its own:
\* after the second the cursor has passed the copied space and two skipped code
\* points of the transcription.
C24_Witness ==
    /\ pc = "scan"
    /\ ignorePatterns = << <<"|">> >>
    /\ groundTruth = <<" ", "|", "|", " ">>
    /\ transcription = <<" ", "a", "a", " ">>
    /\ lastStep = "embedded"
    /\ gtIdx = 3
    /\ transIdx = 3
    /\ processedGT = <<" ">>
    /\ processedTrans = <<" ">>

\* The first pattern of the list that occurs literally in gt at index at; <<>>,
\* a position that is copied, when none does or when that pattern is empty.
UsedPattern(gt, at, patterns) ==
    LET K == LiteralMatches(gt, at, patterns)
    IN  IF K = {} THEN <<>>
        ELSE patterns[CHOOSE k \in K : \A h \in K : k <= h]

RECURSIVE Unskipped(_, _, _, _, _)
\* The transcription t from index tat on without the spans the scan of gt from
\* index at on skips: a whitespace run and a word for a standalone match, one
\* code point for an embedded one.
Unskipped(gt, at, t, tat, patterns) ==
    IF at >= Len(gt) THEN Drop(t, tat)
    ELSE LET p == UsedPattern(gt, at, patterns)
         IN  IF p = <<>>
             THEN IF tat < Len(t)
                  THEN <<t[tat + 1]>> \o Unskipped(gt, at + 1, t, tat + 1, patterns)
                  ELSE <<>>
             ELSE IF Bounded(gt, at, Len(p))
                  THEN Unskipped(gt, at + Len(p), t,
                                 RunEnd(t, RunEnd(t, tat, FALSE), TRUE), patterns)
                  ELSE Unskipped(gt, at + Len(p), t, Min(tat + 1, Len(t)), patterns)

\* C26: with a non-empty pattern list the processed transcription never has
\* more code points than the processed ground truth: it is the transcription
\* without the skipped spans, cut off after as many code points as the
\* processed ground truth has, so later transcription text is dropped; with an
\* empty list the transcription is returned whole.
C26_TranscriptionCutToGroundTruth ==
    /\ (pc \in {"scan", "aligned"} /\ ignorePatterns # <<>>) =>
          Len(processedTrans) <= Len(processedGT)
    /\ pc = "aligned" =>
          IF ignorePatterns = <<>> THEN processedTrans = transcription
          ELSE LET u == Unskipped(groundTruth, 0, transcription, 0, ignorePatterns)
               IN  processedTrans = SubSeq(u, 1, Min(Len(u), Len(processedGT)))

\* C26 witness: one code point kept, one skipped for an embedded marker, and the
\* two code points after them dropped.
C26_Witness ==
    /\ pc = "aligned"
    /\ ignorePatterns = << <<"|">> >>
    /\ groundTruth = <<"a", "|">>
    /\ transcription = <<"a", " ", "a", "a">>
    /\ transIdx = 2
    /\ processedGT = <<"a">>
    /\ processedTrans = <<"a">>
    /\ Unskipped(groundTruth, 0, transcription, 0, ignorePatterns) = <<"a", "a", "a">>

\* C27: for every ground truth and every pattern list, also one with repeated
\* patterns or patterns that overlap, the ignored count returned equals the
\* number of ground-truth code points the scan removed: the length of the
\* ground truth minus the length of the processed ground truth.
C27_IgnoredCountIsRemovedCodePoints ==
    (pc = "aligned" /\ NonEmptyPatterns(ignorePatterns)) =>
        ignoredCount = Len(groundTruth) - Len(processedGT)

-----------------------------------------------------------------------------
(* Properties of the termination of the backtrace *)

\* The iterations the backtrack loop has made.
Iterations == correct + substitutions + deletions + insertions

\* One of the four branches of lines 1792-1810 applies at the cell (i, j).
SomeBranchApplies(i, j) ==
    \/ IsCorrect(orig, trans, i, j)
    \/ IsSubstitution(orig, trans, i, j)
    \/ IsDeletion(orig, trans, i, j)
    \/ IsInsertion(orig, trans, i, j)

\* C29: the backtrack loop terminates for all word sequences: at every cell
\* of the table other than (0, 0) one of the four branches applies, every
\* iteration decreases i or j and raises neither, the loop makes at most m + n
\* iterations, and the function returns with the cursors at (0, 0).
C29_BacktraceTerminates ==
    /\ [](pc = "backtrack" =>
            /\ bi \in 0..Len(orig)
            /\ bj \in 0..Len(trans)
            /\ \A i \in 0..Len(orig), j \in 0..Len(trans) :
                 LoopCondition(i, j) => SomeBranchApplies(i, j)
            /\ Iterations <= Len(orig) + Len(trans))
    /\ [][(pc = "backtrack" /\ pc' = "backtrack") =>
             /\ bi' <= bi
             /\ bj' <= bj
             /\ bi' + bj' < bi + bj
             /\ Iterations' = Iterations + 1]_vars
    /\ [](pc = "wordsReturned" => bi = 0 /\ bj = 0)
    /\ <>(pc = "wordsReturned")

\* C29 witness: an empty original and two transcribed words; the loop has made
\* m + n = 2 iterations, both insertions along the first row, and has returned.
C29_Witness ==
    /\ pc = "wordsReturned"
    /\ orig = <<>>
    /\ Len(trans) = 2
    /\ insertions = 2
    /\ Iterations = Len(orig) + Len(trans)
    /\ bi = 0
    /\ bj = 0

-----------------------------------------------------------------------------
(* Properties of the character distance *)

\* The k-th smallest element of a set of numbers.
Kth(S, k) == CHOOSE x \in S : Cardinality({y \in S : y <= x}) = k

\* The cost of turning a into b keeping the positions A of a, matched in order
\* with the positions B of b: the unmatched positions of a are deleted, those of
\* b inserted, and a matched pair of different items is a substitution.
AlignmentCost(a, b, A, B) ==
    (Len(a) - Cardinality(A)) + (Len(b) - Cardinality(B))
    + Cardinality({k \in 1..Cardinality(A) : a[Kth(A, k)] # b[Kth(B, k)]})

\* The classic edit distance: the least cost over all order-preserving matchings.
EditDistance(a, b) ==
    LET matchings == {P \in (SUBSET (1..Len(a))) \X (SUBSET (1..Len(b))) :
                         Cardinality(P[1]) = Cardinality(P[2])}
        costs == {AlignmentCost(a, b, P[1], P[2]) : P \in matchings}
    IN  CHOOSE c \in costs : \A d \in costs : c <= d

SingleByte(s) == \A k \in 1..Len(s) : Len(UTF8(s[k])) = 1

\* C7: on strings of single-byte characters levenshteinDistance returns the
\* classic edit distance (least number of insertions, deletions and
\* substitutions), and the same value with its arguments exchanged.
C7_LevenshteinIsEditDistance ==
    (pc = "levenshteinReturned" /\ SingleByte(s1) /\ SingleByte(s2)) =>
        /\ charOut.distance = EditDistance(s1, s2)
        /\ charOut.distance = levenshteinDistance(s2, s1)

\* C7 witness: a distance that needs a deletion and a substitution.
C7_Witness ==
    /\ pc = "levenshteinReturned"
    /\ s1 = <<"a", "b", "a">>
    /\ s2 = <<"b", "b">>
    /\ charOut.distance = 2

\* C9: calculateSimilarity returns 1 - levenshtein(a, b) / max(|a|, |b|), with
\* the distance and the lengths counted in characters, and 1.0 for two empty
\* strings; for other strings it is 0 exactly when the distance equals the
\* longer length.
C9_SimilarityFormula ==
    pc = "similarityReturned" =>
        LET longer == Max(Len(s1), Len(s2))
            d == EditDistance(s1, s2)
        IN  /\ (s1 = <<>> /\ s2 = <<>>) => FracEq(charOut.similarity, One)
            /\ longer > 0 =>
                 /\ FracEq(charOut.similarity, Frac(longer - d, longer))
                 /\ FracEq(charOut.similarity, Zero) <=> (d = longer)

-----------------------------------------------------------------------------
(* Properties of calculateWordLevelMetrics *)

\* C4: for a non-empty original sequence the returned counts satisfy
\* correct + substitutions + deletions = number of original words.
C4_OriginalWordsAccounted ==
    (pc = "wordsReturned" /\ Len(orig) > 0) =>
        wordOut.correct + wordOut.substitutions + wordOut.deletions = Len(orig)

\* C4 witness: an alignment with a correct word, a substitution and a deletion.
C4_Witness ==
    /\ pc = "wordsReturned"
    /\ Len(orig) = 3
    /\ wordOut.correct = 1
    /\ wordOut.substitutions = 1
    /\ wordOut.deletions = 1

-----------------------------------------------------------------------------
(* Properties of CalculateAccuracyMetrics *)

\* The number of whitespace-separated tokens of a text: its word starts.
TokenCount(text) ==
    Cardinality({k \in 1..Len(text) :
                    ~IsSpace(text[k]) /\ (k = 1 \/ IsSpace(text[k - 1]))})

RECURSIVE Masked(_, _, _, _, _, _)
\* Whether t from tat on is g from at on with every standalone marker replaced
\* by one non-empty whitespace-free word, every embedded marker replaced by
\* exactly one code point (any one if anyChar, else one that is not whitespace),
\* and all other text identical.
Masked(g, at, t, tat, patterns, anyChar) ==
    IF at >= Len(g) THEN tat = Len(t)
    ELSE LET marker == MatchedPattern(g, at, patterns)
             n == Len(marker)
         IN  IF marker # <<>>
             THEN IF Bounded(g, at, n)
                  THEN \E w \in 1..(Len(t) - tat) :
                          /\ \A k \in 1..w : ~IsSpace(t[tat + k])
                          /\ Masked(g, at + n, t, tat + w, patterns, anyChar)
                  ELSE /\ tat < Len(t)
                       /\ anyChar \/ ~IsSpace(t[tat + 1])
                       /\ Masked(g, at + n, t, tat + 1, patterns, anyChar)
             ELSE /\ tat < Len(t)
                  /\ t[tat + 1] = g[at + 1]
                  /\ Masked(g, at + 1, t, tat + 1, patterns, anyChar)

NoSpaceInPatterns(patterns) ==
    \A k \in 1..Len(patterns) : \A h \in 1..Len(patterns[k]) : ~IsSpace(patterns[k][h])

\* The outcome of a masking round trip: equal processed texts and a perfect score.
PerfectScore ==
    /\ processedGT = processedTrans
    /\ FracEq(result.CharacterSimilarity, One)
    /\ FracEq(result.WordAccuracy, One)
    /\ result.Substitutions = 0
    /\ result.Deletions = 0
    /\ result.Insertions = 0
    /\ result.CorrectWords = result.TotalWordsOriginal

\* C1 as stated: when the transcription is the ground truth with every
\* standalone marker replaced by a whitespace-free word and every embedded
\* marker by exactly one character, whichever it is, the processed texts are
\* equal and the result reports a perfect score, in either line mode.
C1_MaskingRoundTripAnyCharacter ==
    (/\ pc = "done"
     /\ NoSpaceInPatterns(ignorePatterns)
     /\ Masked(original, 0, transcribed, 0, ignorePatterns, TRUE)) =>
        PerfectScore

\* C1 amended: the same, where in single-line mode the character that replaces
\* an embedded marker is not whitespace.
C1_MaskingRoundTrip ==
    (/\ pc = "done"
     /\ NoSpaceInPatterns(ignorePatterns)
     /\ Masked(original, 0, transcribed, 0, ignorePatterns, ~singleLine)) =>
        PerfectScore

\* C1 witness: single-line mode, a standalone marker replaced by a word and
\* followed by a line break and kept text.
C1_Witness ==
    /\ pc = "done"
    /\ singleLine
    /\ ignorePatterns = << <<"|">> >>
    /\ original = <<"|", "\n", "a">>
    /\ transcribed = <<"A", "\n", "a">>
    /\ processedGT = <<" ", "a">>
    /\ processedTrans = <<" ", "a">>
    /\ result.CorrectWords = 1

LowerCase(text) ==
    [k \in 1..Len(text) |-> CASE text[k] = "A" -> "a"
                              [] text[k] = "B" -> "b"
                              [] OTHER -> text[k]]

\* C5: the comparison is case-insensitive: texts that differ only in letter
\* case get character similarity and accuracy 1.0 and every word correct.
C5_CaseInsensitive ==
    (pc = "done" /\ LowerCase(original) = LowerCase(transcribed)) =>
        /\ FracEq(result.CharacterSimilarity, One)
        /\ FracEq(result.CharacterAccuracy, One)
        /\ result.CorrectWords = result.TotalWordsOriginal
        /\ result.Substitutions = 0
        /\ result.Deletions = 0
        /\ result.Insertions = 0

\* C6 as stated: for a non-empty original both the character similarity and
\* the character accuracy lie in [0, 1], whatever the transcription.
C6_BothInUnitInterval ==
    (pc = "done" /\ processedGT # <<>>) =>
        /\ FracLeq(Zero, result.CharacterSimilarity)
        /\ FracLeq(result.CharacterSimilarity, One)
        /\ FracLeq(Zero, result.CharacterAccuracy)
        /\ FracLeq(result.CharacterAccuracy, One)

\* C6 amended: for a non-empty original the similarity lies in [0, 1]; the
\* character accuracy is at most 1, is at least 0 when the transcription is not
\* longer than the original, and is never below 1 - |transcription|/|original|
\* (lengths as len counts them, of the processed texts).
C6_SimilarityBoundedAccuracyAtMostOne ==
    (pc = "done" /\ processedGT # <<>>) =>
        /\ FracLeq(Zero, result.CharacterSimilarity)
        /\ FracLeq(result.CharacterSimilarity, One)
        /\ result.CharacterAccuracy.den > 0
        /\ FracLeq(result.CharacterAccuracy, One)
        /\ Len(Bytes(processedTrans)) <= Len(Bytes(processedGT)) =>
               FracLeq(Zero, result.CharacterAccuracy)
        /\ Len(Bytes(processedTrans)) > Len(Bytes(processedGT)) =>
               FracLeq(Frac(Len(Bytes(processedGT)) - Len(Bytes(processedTrans)),
                            Len(Bytes(processedGT))),
                       result.CharacterAccuracy)

\* C6 witness: a transcription longer than the original with accuracy -2.
C6_Witness ==
    /\ pc = "done"
    /\ processedGT = <<"a">>
    /\ processedTrans = <<"A", "A", "A">>
    /\ FracEq(result.CharacterAccuracy, Frac(-2, 1))
    /\ FracEq(result.CharacterSimilarity, Zero)

C10_WordErrorRate ==
    pc = "done" =>
        LET total == result.TotalWordsOriginal
            edits == result.Substitutions + result.Deletions + result.Insertions
        IN  /\ total = TokenCount(processedGT)
            /\ result.WordErrorRate.den > 0
            /\ IF total = 0 THEN FracEq(result.WordErrorRate, Zero)
               ELSE result.WordErrorRate.num * total
                       = edits * result.WordErrorRate.den
            /\ result.WordAccuracy.den > 0
            /\ FracEq(result.WordAccuracy, OneMinus(result.WordErrorRate))

\* C10 witness: no original word, an inserted word, and a word error rate of 0.
C10_Witness ==
    /\ pc = "done"
    /\ result.TotalWordsOriginal = 0
    /\ result.Insertions = 2
    /\ FracEq(result.WordErrorRate, Zero)
    /\ FracEq(result.WordAccuracy, One)

\* C11 as stated: the word similarity is 1 - word distance / max(m, n) and
\* differs from the word accuracy whenever the numbers of words m and n differ.
C11_WordSimilarityAlwaysDiffers ==
    pc = "done" =>
        LET m == Len(orig)
            n == Len(trans)
            longer == Max(m, n)
        IN  /\ result.WordSimilarity.den > 0
            /\ longer > 0 =>
                 result.WordSimilarity.num * longer
                    = (longer - EditDistance(orig, trans)) * result.WordSimilarity.den
            /\ m # n => ~FracEq(result.WordSimilarity, result.WordAccuracy)

\* C11 amended: the word similarity is 1 - word distance / max(m, n); it differs
\* from the word accuracy whenever the transcription has more words than the
\* original (n > m) and equals it whenever the original has more (m > n).
C11_WordSimilarityFormula ==
    pc = "done" =>
        LET m == Len(orig)
            n == Len(trans)
            longer == Max(m, n)
        IN  /\ result.WordSimilarity.den > 0
            /\ longer > 0 =>
                 result.WordSimilarity.num * longer
                    = (longer - EditDistance(orig, trans)) * result.WordSimilarity.den
            /\ n > m => ~FracEq(result.WordSimilarity, result.WordAccuracy)
            /\ m > n => FracEq(result.WordSimilarity, result.WordAccuracy)

\* C11 witness: one original word, two transcribed: similarity 1/2, accuracy 0.
C11_Witness ==
    /\ pc = "done"
    /\ orig = << <<"a">> >>
    /\ trans = << <<"a">>, <<"a">> >>
    /\ FracEq(result.WordSimilarity, Frac(1, 2))
    /\ FracEq(result.WordAccuracy, Zero)

-----------------------------------------------------------------------------
(* Properties of the ignored-character count *)

\* The number of occurrences of a non-empty p in s: the most positions where p
\* matches that can be taken without two of the matches overlapping.
Occurrences(s, p) ==
    LET at == {k \in 0..(Len(s) - Len(p)) : MatchesAt(s, k, p)}
        apart(P) == \A x \in P : \A y \in P : x < y => y - x >= Len(p)
        sizes == {Cardinality(P) : P \in {Q \in SUBSET at : apart(Q)}}
    IN  CHOOSE c \in sizes : \A d \in sizes : d <= c

RECURSIVE OccurrencesTimesLength(_, _)
\* The sum over the patterns of occurrences in gt times the pattern's length (as
\* len measures it); an empty pattern has length 0 and adds nothing.
OccurrencesTimesLength(gt, patterns) ==
    IF patterns = <<>> THEN 0
    ELSE (IF Head(patterns) = <<>> THEN 0
          ELSE Occurrences(gt, Head(patterns)) * Len(Bytes(Head(patterns))))
         + OccurrencesTimesLength(gt, Tail(patterns))

-----------------------------------------------------------------------------
(* Properties of applyIgnorePatterns on its edge cases *)

\* C13: with an empty pattern list applyIgnorePatterns returns the ground truth
\* and the transcription unchanged and an ignored count of 0, whatever their
\* lengths.
C13_EmptyPatternsNoOp ==
    (pc = "aligned" /\ ignorePatterns = <<>>) =>
        /\ processedGT = groundTruth
        /\ processedTrans = transcription
        /\ ignoredCount = 0

\* C13 witness: a transcription longer than the ground truth, with a marker-like
\* character in the ground truth, returned whole.
C13_Witness ==
    /\ pc = "aligned"
    /\ ignorePatterns = <<>>
    /\ groundTruth = <<"a", "|">>
    /\ transcription = <<"a", " ", "a", "a">>
    /\ processedGT = <<"a", "|">>
    /\ processedTrans = <<"a", " ", "a", "a">>
    /\ ignoredCount = 0

-----------------------------------------------------------------------------
(* Properties of the single-line transformation *)

Breaks == {"\n", "\r", "\t"}

RECURSIVE RunsToOne(_, _)
\* raw with every break read as a space and every maximal run of spaces
\* shortened to its first space (afterSpace: the code point before was one).
RunsToOne(raw, afterSpace) ==
    IF raw = <<>> THEN <<>>
    ELSE LET blank == Head(raw) = " " \/ Head(raw) \in Breaks
         IN  IF blank
             THEN (IF afterSpace THEN <<>> ELSE <<" ">>) \o RunsToOne(Tail(raw), TRUE)
             ELSE <<Head(raw)>> \o RunsToOne(Tail(raw), FALSE)

\* out is the single-line form of raw.
SingleLineOf(raw, out) ==
    /\ \A k \in 1..Len(out) : out[k] \notin Breaks
    /\ \A k \in 1..(Len(out) - 1) : ~(out[k] = " " /\ out[k + 1] = " ")
    /\ out = RunsToOne(raw, FALSE)
    /\ (raw # <<>> /\ (raw[1] = " " \/ raw[1] \in Breaks)) =>
           (out # <<>> /\ out[1] = " ")
    /\ (raw # <<>> /\ (raw[Len(raw)] = " " \/ raw[Len(raw)] \in Breaks)) =>
           (out # <<>> /\ out[Len(out)] = " ")
    /\ Transformed(out, TRUE) = out

\* C14: with singleLine set, both texts handed on have every newline, carriage
\* return and tab replaced by a space and every run of spaces collapsed to one:
\* no two adjacent spaces, a leading or trailing space kept, and transforming
\* the result again changes nothing.
C14_SingleLineNormalization ==
    (pc = "applyIgnorePatterns" /\ singleLine) =>
        /\ SingleLineOf(original, groundTruth)
        /\ SingleLineOf(transcribed, transcription)

\* C14 witness: three different breaks collapse to one space; a trailing run of
\* two spaces collapses to one trailing space.
C14_Witness ==
    /\ pc = "applyIgnorePatterns"
    /\ singleLine
    /\ original = <<"\t", "\r", "\n">>
    /\ groundTruth = <<" ">>
    /\ transcribed = <<"a", " ", " ">>
    /\ transcription = <<"a", " ">>

\* C15: applyIgnorePatterns always returns; both cursors stay within their
\* strings; every loop iteration moves the ground-truth cursor forward; and once
\* the transcription is exhausted an iteration leaves the transcription cursor
\* and the output transcription alone while the ground truth goes on.
C15_AlignTerminatesInBounds ==
    /\ [](/\ gtIdx \in 0..Len(groundTruth)
          /\ transIdx \in 0..Len(transcription))
    /\ [][(pc = "scan" /\ pc' = "scan") =>
             /\ gtIdx' > gtIdx
             /\ transIdx' >= transIdx
             /\ transIdx = Len(transcription) =>
                  /\ transIdx' = transIdx
                  /\ processedTrans' = processedTrans]_vars
    /\ <>(pc = "aligned")

\* C15 witness: a transcription exhausted after one code point, a pattern that
\* no longer fits at the end of the ground truth, and the scan finished.
C15_Witness ==
    /\ pc = "aligned"
    /\ ignorePatterns = << <<"|", "|">> >>
    /\ groundTruth = <<"a", "|", "|", "|">>
    /\ transcription = <<"a">>
    /\ gtIdx = 4
    /\ transIdx = 1
    /\ processedGT = <<"a", "|">>
    /\ processedTrans = <<"a">>

-----------------------------------------------------------------------------
(* Identities of the character distance *)

\* C16: a string is at distance 0 from itself and has similarity 1.0 with
\* itself, the empty string included.
C16_SelfDistanceZero ==
    /\ (pc = "levenshteinReturned" /\ s1 = s2) => charOut.distance = 0
    /\ (pc = "similarityReturned" /\ s1 = s2) =>
           /\ charOut.similarity.den > 0
           /\ FracEq(charOut.similarity, One)

\* C16 witness: a string of four code points, one of them of two bytes,
\* compared with itself.
C16_Witness ==
    /\ pc = "similarityReturned"
    /\ s1 = <<"a", "U+00E9", "b", "a">>
    /\ s2 = s1
    /\ FracEq(charOut.similarity, One)

\* C17: the distance between the empty string and s, in either order, is the
\* length of s, its number of characters.
C17_DistanceFromEmpty ==
    pc = "levenshteinReturned" =>
        /\ s1 = <<>> => charOut.distance = Len(s2)
        /\ s2 = <<>> => charOut.distance = Len(s1)

-----------------------------------------------------------------------------
(* Properties of processEvaluation *)

\* The rows of the file after its header row, if it has one.
RowsOfFile == IF records # <<>> /\ records[1].image THEN Tail(records) ELSE records

\* The indices of the selected rows that have three columns and that processRow
\* handles without error, in file order.
ProcessedRows ==
    LET S == {i \in 0..(Len(RowsOfFile) - 1) :
                 /\ (TestRows = {} \/ i \in TestRows)
                 /\ RowsOfFile[i + 1].fields >= 3
                 /\ ~RowsOfFile[i + 1].fails}
    IN  [k \in 1..Cardinality(S) |-> Kth(S, k)]

\* C18: one row never aborts the batch: for a file that opens and has records,
\* processEvaluation returns no error and exactly the selected rows it could
\* process, in file order; rows of fewer than three columns and rows whose
\* processing failed are skipped.
C18_BatchNeverAborts ==
    (pc = "returned" /\ csvOpens /\ records # <<>>) =>
        /\ err = "nil"
        /\ results = ProcessedRows

-----------------------------------------------------------------------------
(* Properties of the csv command *)

\* C19: the rows are printed from best to worst average word accuracy: of any
\* two printed rows the earlier has an AvgWordAccuracy at least that of the later.
C19_SortedByWordAccuracy ==
    pc = "printed" =>
        \A i \in 1..Len(modelSummaries) : \A j \in (i + 1)..Len(modelSummaries) :
            FracLeq(modelSummaries[j].AvgWordAccuracy,
                    modelSummaries[i].AvgWordAccuracy)

-----------------------------------------------------------------------------
(* Properties of the backfill command *)

\* The metric fields of two results agree.
SameMetrics(x, y) ==
    /\ FracEq(x.CharacterSimilarity, y.CharacterSimilarity)
    /\ FracEq(x.CharacterAccuracy, y.CharacterAccuracy)
    /\ FracEq(x.WordSimilarity, y.WordSimilarity)
    /\ FracEq(x.WordAccuracy, y.WordAccuracy)
    /\ FracEq(x.WordErrorRate, y.WordErrorRate)
    /\ x.TotalWordsOriginal = y.TotalWordsOriginal
    /\ x.TotalWordsTranscribed = y.TotalWordsTranscribed
    /\ x.CorrectWords = y.CorrectWords
    /\ x.Substitutions = y.Substitutions
    /\ x.Deletions = y.Deletions
    /\ x.Insertions = y.Insertions
    /\ x.IgnoredCharsCount = y.IgnoredCharsCount

\* C20: after the backfill of a stored result with a provider response and a
\* readable ground truth, every metric field of the stored result equals what
\* CalculateAccuracyMetrics returned under the settings of the backfill.
C20_BackfillRefreshesAllMetrics ==
    (pc = "backfilled" /\ transcribed # <<>> /\ transcriptReadable) =>
        SameMetrics(summaryResult, result)

-----------------------------------------------------------------------------
(* Properties of runBackfill and runEval *)

\* The backfill has settled the settings of the file.
BackfillSettled == caller = "runBackfill" /\ pc # "runBackfill"

\* C21: in a backfill without --override each setting is chosen on its own: the
\* ignore patterns are those of --ignore if that flag was passed and else those
\* saved in the config of the file, and the single-line setting is that of
\* --single-line if that flag was passed and else the one saved in the config.
C21_SettingsChosenIndependently ==
    (BackfillSettled /\ ~backfillOverride) =>
        /\ ignorePatterns = IF hasIgnoreFlag THEN backfillIgnorePatterns
                            ELSE config.IgnorePatterns
        /\ singleLine = IF hasSingleLineFlag THEN backfillSingleLine
                        ELSE config.SingleLine

\* A backfill given none of --override, --ignore and --single-line.
BackfillWithoutFlags ==
    BackfillSettled /\ ~backfillOverride /\ ~hasIgnoreFlag /\ ~hasSingleLineFlag

\* C28: the metrics of a row of eval are computed with the ignore patterns and
\* the single-line setting recorded in the config of the file eval writes, be
\* the config built from the flags or loaded with --config; and a backfill
\* without flags after that eval finds the stored metrics up to date and
\* rewrites nothing.
C28_MetricsMatchRecordedConfig ==
    /\ (caller = "processRow" /\ pc # "runEval") =>
           /\ ignorePatterns = config.IgnorePatterns
           /\ singleLine = config.SingleLine
    /\ (BackfillWithoutFlags /\ pc = "backfilled") => ~needsUpdate

-----------------------------------------------------------------------------
(* Properties of the backtrace *)

\* dp[i][j] of calculateWordLevelMetrics for the words of the call.
Cell(i, j) == Dp(orig, trans)[i + 1][j + 1]

\* An iteration of the backtrack loop.
BacktrackStep == pc = "backtrack" /\ pc' = "backtrack" /\ <<bi, bj>>' # <<bi, bj>>

\* What an iteration did, from the counters and the cursors.
Recorded(kind) ==
    /\ correct' = correct + (IF kind = "correct" THEN 1 ELSE 0)
    /\ substitutions' = substitutions + (IF kind = "substitution" THEN 1 ELSE 0)
    /\ deletions' = deletions + (IF kind = "deletion" THEN 1 ELSE 0)
    /\ insertions' = insertions + (IF kind = "insertion" THEN 1 ELSE 0)
    /\ bi' = bi - (IF kind = "insertion" THEN 0 ELSE 1)
    /\ bj' = bj - (IF kind = "deletion" THEN 0 ELSE 1)

\* C22: in the backtrace equal words at cell (i, j) are recorded as correct with
\* a diagonal move; for differing words a substitution (diagonal) is recorded
\* whenever dp[i][j] = dp[i-1][j-1] + 1, otherwise a deletion (up) whenever
\* dp[i][j] = dp[i-1][j] + 1, otherwise an insertion (left): substitution is
\* preferred to deletion and deletion to insertion.
C22_BacktraceTieBreak ==
    [][ BacktrackStep =>
          IF bi > 0 /\ bj > 0 /\ orig[bi] = trans[bj]
          THEN Recorded("correct")
          ELSE IF bi > 0 /\ bj > 0 /\ Cell(bi, bj) = Cell(bi - 1, bj - 1) + 1
          THEN Recorded("substitution")
          ELSE IF bi > 0 /\ Cell(bi, bj) = Cell(bi - 1, bj) + 1
          THEN Recorded("deletion")
          ELSE Recorded("insertion")
      ]_vars

\* C22 witness: "a b" against "b a": at cell (2, 2) the three predecessors give
\* the same value and the first iteration recorded a substitution.
C22_Witness ==
    /\ pc = "backtrack"
    /\ orig = << <<"a">>, <<"b">> >>
    /\ trans = << <<"b">>, <<"a">> >>
    /\ Cell(2, 2) = Cell(1, 2) + 1
    /\ Cell(2, 2) = Cell(2, 1) + 1
    /\ bi = 1
    /\ bj = 1
    /\ substitutions = 1
    /\ deletions = 0
    /\ insertions = 0

\* C25: the edits counted by the backtrace (substitutions + deletions +
\* insertions) equal the word-level Levenshtein distance that
\* wordLevelLevenshteinDistance computes for the same words, which is the
\* classic edit distance, so the word error rate (distance / m) and the word
\* similarity (1 - distance / max(m, n)) normalize one and the same distance.
C25_BacktraceEditsAreWordDistance ==
    pc = "wordsReturned" =>
        LET m == Len(orig)
            n == Len(trans)
            d == wordLevelLevenshteinDistance(orig, trans)
            edits == wordOut.substitutions + wordOut.deletions + wordOut.insertions
        IN  /\ edits = d
            /\ d = EditDistance(orig, trans)
            /\ m > 0 => FracEq(OneMinus(wordOut.wordAccuracy), Frac(d, m))
            /\ Max(m, n) > 0 =>
                 FracEq(OneMinus(calculateWordSimilarity(orig, trans)),
                        Frac(d, Max(m, n)))

\* C25 witness: two words against three, a substitution and an insertion: the
\* distance 2 gives a word error rate of 2/2 and a word similarity of 1 - 2/3.
C25_Witness ==
    /\ pc = "wordsReturned"
    /\ Len(orig) = 2
    /\ Len(trans) = 3
    /\ wordOut.substitutions = 1
    /\ wordOut.insertions = 1
    /\ wordOut.deletions = 0
    /\ wordLevelLevenshteinDistance(orig, trans) = 2
    /\ FracEq(wordOut.wordAccuracy, Zero)
    /\ FracEq(calculateWordSimilarity(orig, trans), Frac(1, 3))

-----------------------------------------------------------------------------
(* Properties of the unit of the character metrics *)

\* C30: the character metrics count in code points: the distance returned is
\* the edit distance of the two strings as sequences of code points, so that
\* replacing a non-ASCII character by another character costs 1, and the
\* similarity is 1 - distance / max(|a|, |b|) with lengths in code points.
C30_CharacterMetricsUseCodePoints ==
    /\ pc = "levenshteinReturned" => charOut.distance = EditDistance(s1, s2)
    /\ pc = "similarityReturned" =>
           LET longer == Max(Len(s1), Len(s2))
           IN  longer > 0 =>
                   FracEq(charOut.similarity,
                          Frac(longer - EditDistance(s1, s2), longer))

=============================================================================
